---- MODULE Spec2Model ----
(***************************************************************************)
(* SampleFlow: the heuristic risk-scoring engine (utils/riskScoring) and   *)
(* the places of the application that turn a risk score into a level.      *)
(*                                                                         *)
(* Strings that the code searches with String.prototype.includes are       *)
(* tuples of one-character strings; strings that are only carried around   *)
(* (names, descriptions, mitigations, rightsHolder) are plain strings.     *)
(* Weights are kept in tenths (3 is 30, 2.5 is 25) so that the weighted    *)
(* mean stays in the integers.                                             *)
(***************************************************************************)
EXTENDS Integers, Sequences, FiniteSets

VARIABLES
  currentYear,  \* what new Date().getFullYear() returns
  args,         \* the five arguments of the next calculateRiskScore call
  calls,        \* the last two calls made: <<older, newer>>, each with its result
  riskScore,    \* the risk score handed to the score-to-level consumers
  shown,        \* what each consumer displayed for it
  flags,        \* FEATURE_FLAGS of the deployment
  svc,          \* the service call in progress and how it ended
  api,          \* the ApiService.request in progress and how it ended
  subscription, \* useSubscription: the tier and the answers it gave
  hook,         \* useRiskAssessment: its state and its inputs
  project,      \* ProjectDetail: the projects of the context and its timers
  segments,     \* useSampleSegments: its state, its prop and its effect
  analysis,     \* useAudioAnalysis: its state, its timer and its call
  chat,         \* ChatThread: its messages and the sends in flight
  offers        \* OfferTracker: its offers and its form

vars ==
  << currentYear, args, calls, riskScore, shown, flags, svc, api,
     subscription, hook, project, segments, analysis, chat, offers >>
riskVars == <<currentYear, args, calls, riskScore, shown>>
apiVars == <<flags, svc, api>>
uiVars == <<subscription, hook, project, segments, analysis, chat, offers>>

(***************************************************************************)
(* Bounds                                                                  *)
(***************************************************************************)
YearsAhead == 1     \* how many times the calendar year may roll over
MaxRetriesGiven == 2  \* the largest maxRetries a caller or a configuration gives
MaxCount == 11        \* the largest count isFeatureAvailable is asked about
MaxFactorUpdates == 2 \* how many updateRiskFactor calls one mounted hook receives
MaxSends == 3         \* how many messages are sent from one ProjectDetail
MaxRenders == 5       \* how many times useSampleSegments is rendered
MaxCalls == 2         \* how many analyzeSample calls one useAudioAnalysis receives
MaxMessages == 3      \* how many messages are sent in one ChatThread
MaxOffers == 1        \* how many offers one OfferTracker lists at a time

(***************************************************************************)
(* String.prototype.includes, Array.prototype.some/filter/map/reduce       *)
(***************************************************************************)
includes(s, sub) ==
  \E i \in 0..(Len(s) - Len(sub)) :
    \A j \in 1..Len(sub) : s[i + j] = sub[j]

some(list, s) == \E k \in 1..Len(list) : includes(s, list[k])

RECURSIVE reduceWeight(_)
reduceWeight(factors) ==
  IF factors = <<>> THEN 0
  ELSE Head(factors).weight + reduceWeight(Tail(factors))

RECURSIVE reduceScore(_)
reduceScore(factors) ==
  IF factors = <<>> THEN 0
  ELSE Head(factors).score * Head(factors).weight + reduceScore(Tail(factors))

\* Math.round of the quotient num / den (den > 0): the nearest integer,
\* a tie going to the larger one.
MathFloor(num, den) == num \div den

MathCeil(num, den) == -((-num) \div den)

MathRound(num, den) == (2 * num + den) \div (2 * den)

(***************************************************************************)
(* The lookup tables                                                       *)
(***************************************************************************)
majorLabels ==
  << <<"U","n","i","v","e","r","s","a","l">>,
     <<"S","o","n","y">>,
     <<"W","a","r","n","e","r">>,
     <<"E","M","I">>,
     <<"C","o","l","u","m","b","i","a">>,
     <<"A","t","l","a","n","t","i","c">>,
     <<"I","n","t","e","r","s","c","o","p","e">>,
     <<"C","a","p","i","t","o","l">>,
     <<"D","e","f"," ","J","a","m">>,
     <<"R","C","A">>,
     <<"R","e","p","u","b","l","i","c">>,
     <<"P","o","l","y","d","o","r">> >>

veryPopularArtists ==
  << <<"M","i","c","h","a","e","l"," ","J","a","c","k","s","o","n">>,
     <<"T","h","e"," ","B","e","a","t","l","e","s">>,
     <<"Q","u","e","e","n">>,
     <<"M","a","d","o","n","n","a">>,
     <<"B","e","y","o","n","c","é">>,
     <<"D","r","a","k","e">>,
     <<"T","a","y","l","o","r"," ","S","w","i","f","t">>,
     <<"E","d"," ","S","h","e","e","r","a","n">>,
     <<"R","i","h","a","n","n","a">>,
     <<"A","d","e","l","e">>,
     <<"J","a","m","e","s"," ","B","r","o","w","n">>,
     <<"P","r","i","n","c","e">>,
     <<"D","a","v","i","d"," ","B","o","w","i","e">>,
     <<"W","h","i","t","n","e","y"," ","H","o","u","s","t","o","n">> >>

popularArtists ==
  << <<"C","o","l","d","p","l","a","y">>,
     <<"R","a","d","i","o","h","e","a","d">>,
     <<"K","e","n","d","r","i","c","k"," ","L","a","m","a","r">>,
     <<"D","a","f","t"," ","P","u","n","k">>,
     <<"T","h","e"," ","W","e","e","k","n","d">>,
     <<"A","l","i","c","i","a"," ","K","e","y","s">>,
     <<"J","u","s","t","i","n"," ","T","i","m","b","e","r","l","a","k","e">>,
     <<"K","a","n","y","e"," ","W","e","s","t">>,
     <<"L","a","d","y"," ","G","a","g","a">> >>

frequentlySampledTracks ==
  << <<"F","u","n","k","y"," ","D","r","u","m","m","e","r">>,
     <<"A","m","e","n"," ","B","r","e","a","k">>,
     <<"T","h","i","n","k">>,
     <<"L","a"," ","D","i"," ","D","a"," ","D","i">>,
     <<"A","p","a","c","h","e">>,
     <<"I","m","p","e","a","c","h"," ","t","h","e"," ","P","r","e","s","i","d","e","n","t">>,
     <<"S","y","n","t","h","e","t","i","c"," ","S","u","b","s","t","i","t","u","t","i","o","n">>,
     <<"C","h","a","n","g","e"," ","t","h","e"," ","B","e","a","t">>,
     <<"B","r","i","n","g"," ","t","h","e"," ","N","o","i","s","e">>,
     <<"W","h","e","n"," ","t","h","e"," ","L","e","v","e","e"," ","B","r","e","a","k","s">> >>

moderatelySampledTracks ==
  << <<"T","h","e"," ","P","a","y","b","a","c","k">>,
     <<"F","o","o","t","s","t","e","p","s"," ","i","n"," ","t","h","e"," ","D","a","r","k">>,
     <<"N","a","u","t","i","l","u","s">>,
     <<"F","u","n","k","y"," ","P","r","e","s","i","d","e","n","t">>,
     <<"M","o","r","e"," ","B","o","u","n","c","e"," ","t","o"," ","t","h","e"," ","O","u","n","c","e">>,
     <<"A","i","n","'","t"," ","N","o"," ","S","u","n","s","h","i","n","e">>,
     <<"D","a","r","k","e","s","t"," ","L","i","g","h","t">> >>

(***************************************************************************)
(* The four factor assessors                                               *)
(***************************************************************************)
labelOwnership(isMajorLabel) ==
     [ name        |-> "Label Ownership",
       weight      |-> 30,
       score       |-> IF isMajorLabel THEN 80 ELSE 40,
       impact      |-> IF isMajorLabel THEN "high" ELSE "medium",
       description |-> IF isMajorLabel
                       THEN "The sample is owned by a major label, which typically have stricter clearance processes and higher fees."
                       ELSE "The sample is owned by an independent label, which may be more flexible with clearance terms.",
       mitigation  |-> IF isMajorLabel
                       THEN "Consider budgeting for higher licensing fees or exploring alternative samples."
                       ELSE "Reach out directly to the label with a personalized approach." ]

\* the label must be a major label's name, not merely contain one
assessLabelRiskExact(label) ==
  labelOwnership(\E k \in 1..Len(majorLabels) : label = majorLabels[k])

assessLabelRisk(label) == labelOwnership(some(majorLabels, label))

ageBranch(age) ==
        IF age >= 70 THEN
          [ score |-> 20, impact |-> "low",
            description |-> "The track may be approaching public domain in some jurisdictions.",
            mitigation  |-> "Research public domain status in your jurisdiction, as this may simplify clearance." ]
        ELSE IF age >= 50 THEN
          [ score |-> 30, impact |-> "low",
            description |-> "The track has established clearance precedents and may have more accessible rights holders.",
            mitigation  |-> "Look for previous clearance examples to establish reasonable terms." ]
        ELSE IF age >= 30 THEN
          [ score |-> 40, impact |-> "medium",
            description |-> "The track is well-established but still actively protected.",
            mitigation  |-> "Approach with standard clearance procedures and reasonable offer terms." ]
        ELSE IF age >= 10 THEN
          [ score |-> 60, impact |-> "medium",
            description |-> "The track is relatively recent and likely actively managed by rights holders.",
            mitigation  |-> "Prepare a compelling case for your creative use and be ready to negotiate terms." ]
        ELSE
          [ score |-> 75, impact |-> "high",
            description |-> "The track is very recent and may have heightened protection from rights holders.",
            mitigation  |-> "Consider offering higher royalty percentages or creative control to increase chances of approval." ]

trackAge(branch) ==
     [ name        |-> "Track Age",
       weight      |-> 20,
       score       |-> branch.score,
       impact      |-> branch.impact,
       description |-> branch.description,
       mitigation  |-> branch.mitigation ]

\* the brackets' lower bounds are exclusive
assessAgeRiskExclusive(releaseYear) ==
  trackAge(ageBranch(currentYear - releaseYear - 1))

\* the bodies of the two oldest brackets are exchanged
assessAgeRiskSwapped(releaseYear) ==
  LET age == currentYear - releaseYear
  IN trackAge(IF age >= 70 THEN ageBranch(50)
              ELSE IF age >= 50 THEN ageBranch(70)
              ELSE ageBranch(age))

assessAgeRisk(releaseYear) ==
  LET age == currentYear - releaseYear
  IN trackAge(ageBranch(age))

popularityBranch(isVeryPopular, isPopular) ==
        IF isVeryPopular THEN
          [ score |-> 85, impact |-> "high",
            description |-> "The artist is highly popular with significant commercial value and likely strict sample clearance policies.",
            mitigation  |-> "Be prepared for higher licensing fees and consider legal representation for negotiations." ]
        ELSE IF isPopular THEN
          [ score |-> 65, impact |-> "medium",
            description |-> "The artist is well-known with established commercial value and standard clearance procedures.",
            mitigation  |-> "Approach with professional clearance request and reasonable offer terms." ]
        ELSE
          [ score |-> 35, impact |-> "low",
            description |-> "The artist is less mainstream, which may simplify the clearance process.",
            mitigation  |-> "Direct contact with the artist or their management may yield more favorable terms." ]

artistPopularity(branch) ==
     [ name        |-> "Artist Popularity",
       weight      |-> 25,
       score       |-> branch.score,
       impact      |-> branch.impact,
       description |-> branch.description,
       mitigation  |-> branch.mitigation ]

\* the popular list is checked before the very-popular one
assessPopularityRiskPopularFirst(artist) ==
  artistPopularity(IF some(popularArtists, artist)
                   THEN popularityBranch(FALSE, TRUE)
                   ELSE popularityBranch(some(veryPopularArtists, artist), FALSE))

assessPopularityRisk(artist) ==
  artistPopularity(popularityBranch(some(veryPopularArtists, artist),
                                    some(popularArtists, artist)))

usageBranch(isFrequent, isModerate) ==
        IF isFrequent THEN
          [ score |-> 70, impact |-> "high",
            description |-> "This track has been frequently sampled, which may indicate established clearance procedures but also potential fatigue from rights holders.",
            mitigation  |-> "Research previous clearance examples to understand typical terms and prepare a unique creative case for your usage." ]
        ELSE IF isModerate THEN
          [ score |-> 50, impact |-> "medium",
            description |-> "This track has been sampled several times, suggesting clearance is possible but may require negotiation.",
            mitigation  |-> "Look for precedents in similar genres and prepare a professional clearance request." ]
        ELSE
          [ score |-> 30, impact |-> "low",
            description |-> "This track has not been widely sampled, which may indicate fewer precedents but potentially more openness from rights holders.",
            mitigation  |-> "Emphasize the creative and respectful use of the sample in your clearance request." ]

previousSampleUsage(branch) ==
     [ name        |-> "Previous Sample Usage",
       weight      |-> 25,
       score       |-> branch.score,
       impact      |-> branch.impact,
       description |-> branch.description,
       mitigation  |-> branch.mitigation ]

\* the track must be a listed title, not merely contain one
assessPreviousUsageRiskExact(track) ==
  previousSampleUsage(usageBranch(
    \E k \in 1..Len(frequentlySampledTracks) : track = frequentlySampledTracks[k],
    \E k \in 1..Len(moderatelySampledTracks) : track = moderatelySampledTracks[k]))

\* the moderately-sampled list is checked before the frequently-sampled one
assessPreviousUsageRiskModerateFirst(track) ==
  previousSampleUsage(IF some(moderatelySampledTracks, track)
                      THEN usageBranch(FALSE, TRUE)
                      ELSE usageBranch(some(frequentlySampledTracks, track), FALSE))

assessPreviousUsageRisk(track) ==
  previousSampleUsage(usageBranch(some(frequentlySampledTracks, track),
                                  some(moderatelySampledTracks, track)))

(***************************************************************************)
(* The narrative generator.  An issue is the tuple of the pieces the       *)
(* template literal concatenates.                                          *)
(***************************************************************************)
cannedIssues(riskLevel) ==
  IF riskLevel = "high" THEN
    << <<"Major label ownership may require higher licensing fees">>,
       <<"Popular track with previous clearance challenges">>,
       <<"Multiple rights holders may complicate negotiations">> >>
  ELSE IF riskLevel = "medium" THEN
    << <<"Some negotiation may be required for favorable terms">>,
       <<"Rights holder may request creative control over usage">>,
       <<"Approval process may take several weeks">> >>
  ELSE
    << <<"Standard clearance process should be straightforward">>,
       <<"Reasonable licensing fees expected">>,
       <<"Quick turnaround time likely">> >>

presents(highImpactFactors, verb) ==
  [ k \in 1..Len(highImpactFactors) |->
      << highImpactFactors[k].name, verb, highImpactFactors[k].description >> ]

\* the medium branch forgets the high-impact factors
generatePotentialIssuesHighOnly(riskLevel, factors) ==
  LET highImpactFactors == SelectSeq(factors, LAMBDA factor : factor.impact = "high")
  IN IF riskLevel = "high"
     THEN cannedIssues(riskLevel) \o presents(highImpactFactors, " presents significant challenges: ")
     ELSE cannedIssues(riskLevel)

\* the final else branch is missing: nothing is returned at level low
generatePotentialIssuesNoLow(riskLevel, factors) ==
  LET highImpactFactors == SelectSeq(factors, LAMBDA factor : factor.impact = "high")
  IN IF riskLevel = "high"
     THEN cannedIssues(riskLevel) \o presents(highImpactFactors, " presents significant challenges: ")
     ELSE IF riskLevel = "medium"
     THEN cannedIssues(riskLevel) \o presents(highImpactFactors, " presents challenges: ")
     ELSE << >>

\* both levels use the wording of the high level
generatePotentialIssuesSameWording(riskLevel, factors) ==
  LET highImpactFactors == SelectSeq(factors, LAMBDA factor : factor.impact = "high")
  IN IF riskLevel = "low"
     THEN cannedIssues(riskLevel)
     ELSE cannedIssues(riskLevel) \o presents(highImpactFactors, " presents significant challenges: ")

generatePotentialIssues(riskLevel, factors) ==
  LET highImpactFactors == SelectSeq(factors, LAMBDA factor : factor.impact = "high")
  IN IF riskLevel = "high"
     THEN cannedIssues(riskLevel) \o presents(highImpactFactors, " presents significant challenges: ")
     ELSE IF riskLevel = "medium"
     THEN cannedIssues(riskLevel) \o presents(highImpactFactors, " presents challenges: ")
     ELSE cannedIssues(riskLevel)

(***************************************************************************)
(* The aggregator                                                          *)
(***************************************************************************)
\* the thresholds are exclusive
riskLevelStrict(totalScore) ==
  IF totalScore > 70 THEN "high"
  ELSE IF totalScore > 40 THEN "medium"
  ELSE "low"

riskLevelOf(totalScore) ==
  IF totalScore >= 70 THEN "high"
  ELSE IF totalScore >= 40 THEN "medium"
  ELSE "low"

\* the sum is divided by the number of factors, not by their total weight
weightedTotalByCount(factors) ==
  MathRound(reduceScore(factors), 10 * Len(factors))

weightedTotal(factors) ==
  LET totalWeight == reduceWeight(factors)
  IN MathRound(reduceScore(factors), totalWeight)

\* what calculateRiskScore makes of its combined factors
assessment(factors) ==
  LET totalScore       == weightedTotal(factors)
      riskLevel        == riskLevelOf(totalScore)
      withMitigation   == SelectSeq(factors, LAMBDA factor : factor.mitigation # "")
  IN [ totalScore           |-> totalScore,
       riskLevel            |-> riskLevel,
       factors              |-> factors,
       potentialIssues      |-> generatePotentialIssues(riskLevel, factors),
       mitigationStrategies |-> [ k \in 1..Len(withMitigation) |-> withMitigation[k].mitigation ] ]

\* a named rights holder counts as a major label
calculateRiskScoreReadsHolder(sourceTrack, originalArtist, rightsHolder, releaseYear, label) ==
  assessment(<< labelOwnership(some(majorLabels, label) \/ rightsHolder # ""),
                assessAgeRisk(releaseYear),
                assessPopularityRisk(originalArtist),
                assessPreviousUsageRisk(sourceTrack) >>)

\* the factors are combined in another order
calculateRiskScoreAgeFirst(sourceTrack, originalArtist, rightsHolder, releaseYear, label) ==
  assessment(<< assessAgeRisk(releaseYear),
                assessLabelRisk(label),
                assessPopularityRisk(originalArtist),
                assessPreviousUsageRisk(sourceTrack) >>)

calculateRiskScore(sourceTrack, originalArtist, rightsHolder, releaseYear, label) ==
  LET labelFactor      == assessLabelRisk(label)
      ageFactor        == assessAgeRisk(releaseYear)
      popularityFactor == assessPopularityRisk(originalArtist)
      usageFactor      == assessPreviousUsageRisk(sourceTrack)
      factors          == << labelFactor, ageFactor, popularityFactor, usageFactor >>
  IN assessment(factors)

(***************************************************************************)
(* The score-to-level consumers                                            *)
(***************************************************************************)
\* utils/riskScoring
getRiskLevelColor(s) ==
  IF s >= 70 THEN [ level |-> "High", color |-> "text-red-500", bg |-> "bg-red-100" ]
  ELSE IF s >= 40 THEN [ level |-> "Medium", color |-> "text-yellow-500", bg |-> "bg-yellow-100" ]
  ELSE [ level |-> "Low", color |-> "text-green-500", bg |-> "bg-green-100" ]

\* the RiskAssessment component
getRiskLevel(s) ==
  IF s >= 70 THEN [ level |-> "High", color |-> "text-red-500", bg |-> "bg-red-100" ]
  ELSE IF s >= 40 THEN [ level |-> "Medium", color |-> "text-yellow-500", bg |-> "bg-yellow-100" ]
  ELSE [ level |-> "Low", color |-> "text-green-500", bg |-> "bg-green-100" ]

\* the SampleCard component; !score is true of the number 0
getRiskColor(s) ==
  IF s = 0 THEN "text-gray-400"
  ELSE IF s >= 70 THEN "text-red-500"
  ELSE IF s >= 40 THEN "text-yellow-500"
  ELSE "text-green-500"

getRiskBadge(s) ==
  IF s = 0 THEN [ label |-> "Unknown", color |-> "bg-gray-100 text-gray-600" ]
  ELSE IF s >= 70 THEN [ label |-> "High Risk", color |-> "bg-red-100 text-red-600" ]
  ELSE IF s >= 40 THEN [ label |-> "Medium Risk", color |-> "bg-yellow-100 text-yellow-600" ]
  ELSE [ label |-> "Low Risk", color |-> "bg-green-100 text-green-600" ]

(***************************************************************************)
(* Inputs                                                                  *)
(***************************************************************************)
UniversalMusicGroup == <<"U","n","i","v","e","r","s","a","l"," ","M","u","s","i","c"," ","G","r","o","u","p">>
IndieRecordsCo == <<"I","n","d","i","e"," ","R","e","c","o","r","d","s"," ","C","o">>
PolydorRecords == <<"P","o","l","y","d","o","r"," ","R","e","c","o","r","d","s">>
LowercaseSonyMusic == <<"s","o","n","y"," ","m","u","s","i","c">>
JamesBrown == <<"J","a","m","e","s"," ","B","r","o","w","n">>
ColdplayLive == <<"C","o","l","d","p","l","a","y"," ","L","i","v","e">>
UnknownArtist == <<"U","n","k","n","o","w","n"," ","A","r","t","i","s","t">>
FunkyDrummerJamesBrown == <<"F","u","n","k","y"," ","D","r","u","m","m","e","r"," ","-"," ","J","a","m","e","s"," ","B","r","o","w","n">>
NautilusEdit == <<"N","a","u","t","i","l","u","s"," ","(","e","d","i","t",")">>
UnknownTrack == <<"U","n","k","n","o","w","n"," ","T","r","a","c","k">>
PrinceAndColdplay == <<"P","r","i","n","c","e"," ","&"," ","C","o","l","d","p","l","a","y">>
ThinkNautilusMix == <<"T","h","i","n","k"," ","(","N","a","u","t","i","l","u","s"," ","m","i","x",")">>

Labels == { <<>>, UniversalMusicGroup, IndieRecordsCo, PolydorRecords, LowercaseSonyMusic }

Artists == { JamesBrown, ColdplayLive, UnknownArtist }

Tracks == { FunkyDrummerJamesBrown, NautilusEdit, UnknownTrack }

RightsHolders == { "", "Universal Music Group" }

ReleaseYears == { 1900, 1954, 1955, 1970, 1974, 1975, 1994, 1995, 2014, 2015, 2024, 2025 }

\* the usual arguments, in every combination
Grid ==
  [ sourceTrack : Tracks, originalArtist : Artists, rightsHolder : RightsHolders,
    releaseYear : ReleaseYears, label : Labels ]

\* empty strings, and strings that match both lists of an assessor
Corners ==
  [ sourceTrack : { <<>>, ThinkNautilusMix }, originalArtist : { <<>>, PrinceAndColdplay },
    rightsHolder : { "" }, releaseYear : ReleaseYears, label : { <<>> } ]

Scores == 0..100

\* the scores the RiskAssessment component gives its own factors
ComponentFactorScores == { 5, 10, 15, 20, 25, 30 }

Adjustments == { -5, 5 }

NotShown ==
  [ aggregator |-> "", utility |-> "", component |-> "", badge |-> "", cardColor |-> "" ]

(***************************************************************************)
(* ApiService (lib/services/api.ts)                                        *)
(***************************************************************************)
\* given || fallback on an optional number: <<>> is undefined, <<n>> is n;
\* undefined and 0 are both falsy
OrElse(given, fallback) ==
  IF given = <<>> \/ given[1] = 0 THEN fallback ELSE given[1]

\* this.maxRetries as the constructor sets it
constructorMaxRetries(config) == OrElse(config, 3)

\* this.timeout as the constructor sets it
constructorTimeout(config) == OrElse(config, 30000)

\* timeout as request resolves it from its options
requestTimeout(options, thisTimeout) == OrElse(options, thisTimeout)

\* maxRetries as request resolves it from its options
requestMaxRetries(options, thisMaxRetries) == OrElse(options, thisMaxRetries)

NoError == [ name |-> "", status |-> 0, message |-> "", ms |-> 0 ]
ApiError(status) ==
  [ name |-> "ApiError", status |-> status, message |-> "API request failed",
    ms |-> 0 ]
TypeError ==
  [ name |-> "TypeError", status |-> 0, message |-> "Failed to fetch", ms |-> 0 ]
SyntaxError ==
  [ name |-> "SyntaxError", status |-> 0, message |-> "Unexpected token", ms |-> 0 ]
AbortError ==
  [ name |-> "AbortError", status |-> 0, message |-> "The operation was aborted",
    ms |-> 0 ]
\* new Error(`Request timed out after ${timeout}ms`)
TimedOut(timeout) ==
  [ name |-> "Error", status |-> 0, message |-> "Request timed out after ms",
    ms |-> timeout ]

\* Response.ok
ok(response) == response.status >= 200 /\ response.status <= 299

Return(value) == [ threw |-> FALSE, value |-> value, error |-> NoError ]
Throw(error)  == [ threw |-> TRUE, value |-> "", error |-> error ]

\* the try block of request on what one fetch produced: a response, a
\* network failure, or the abort that the timeout timer triggers
try(fetched) ==
  IF fetched.kind = "abort" THEN Throw(AbortError)
  ELSE IF fetched.kind = "networkError" THEN Throw(TypeError)
  ELSE IF ~ ok(fetched) THEN Throw(ApiError(fetched.status))
  ELSE IF fetched.status = 204 THEN Return("{}")
  ELSE IF fetched.body = "text" THEN Return("text")
  ELSE IF fetched.body = "garbled" THEN Throw(SyntaxError)
  ELSE Return(fetched.body)

isClientErrorAbove400(error) ==
  error.name = "ApiError" /\ error.status > 400 /\ error.status < 500

isClientError(error) ==
  error.name = "ApiError" /\ error.status >= 400 /\ error.status < 500

catchRetryingAborts(a, error) ==
  LET b == [ a EXCEPT !.lastError = error ]
  IN IF isClientError(error)
       THEN [ b EXCEPT !.pc = "rejected", !.thrown = error ]
     ELSE IF b.retries < b.maxRetries
       THEN [ b EXCEPT !.pc = "backoff", !.delay = (2 ^ b.retries) * 100 ]
     ELSE [ b EXCEPT !.pc = "rejected", !.thrown = b.lastError ]

\* the catch block of request
catch(a, error) ==
  LET b == [ a EXCEPT !.lastError = error ]
  IN IF isClientError(error)
       THEN [ b EXCEPT !.pc = "rejected", !.thrown = error ]
     ELSE IF error.name = "AbortError"
       THEN [ b EXCEPT !.pc = "rejected", !.thrown = TimedOut(b.timeout) ]
     ELSE IF b.retries < b.maxRetries
       THEN [ b EXCEPT !.pc = "backoff", !.delay = (2 ^ b.retries) * 100 ]
     ELSE [ b EXCEPT !.pc = "rejected", !.thrown = b.lastError ]

NoRequest ==
  [ pc |-> "idle", config |-> <<>>, options |-> <<>>, maxRetries |-> 0,
    timeoutConfig |-> <<>>, timeoutOption |-> <<>>, timeout |-> 0,
    retries |-> 0, log |-> <<>>, waits |-> <<>>, delay |-> 0,
    lastError |-> NoError, thrown |-> NoError, value |-> "" ]

\* new ApiService(config).request(endpoint, options) up to its first fetch;
\* config and options each hold an optional maxRetries and an optional timeout
request(config, options) ==
  [ NoRequest EXCEPT
      !.pc            = "fetch",
      !.config        = config.maxRetries,
      !.options       = options.maxRetries,
      !.maxRetries    = requestMaxRetries(options.maxRetries,
                                          constructorMaxRetries(config.maxRetries)),
      !.timeoutConfig = config.timeout,
      !.timeoutOption = options.timeout,
      !.timeout       = requestTimeout(options.timeout,
                                       constructorTimeout(config.timeout)) ]

\* API_CONFIG.openai and API_CONFIG.elevenlabs as the services hand them on,
\* and the options of apiService.post
openai     == [ maxRetries |-> << 3 >>, timeout |-> << 30000 >> ]
elevenlabs == [ maxRetries |-> << 3 >>, timeout |-> << 60000 >> ]
NoOptions  == [ maxRetries |-> <<>>, timeout |-> <<>> ]

(***************************************************************************)
(* The services built on fetch and ApiService                              *)
(***************************************************************************)
OpenAIMethods ==
  { "analyzeSample", "generateNegotiationTemplate", "analyzeNegotiationResponse" }
ElevenLabsMethods == { "extractAudioFeatures", "compareSamples" }
StripeMethods ==
  { "createCheckoutSession", "getSubscriptionDetails",
    "createCustomerPortalSession", "cancelSubscription" }
ServiceMethods == OpenAIMethods \cup ElevenLabsMethods \cup StripeMethods

\* FEATURE_FLAGS as shipped
FEATURE_FLAGS ==
  [ useRealAudioAnalysis |-> FALSE, enableStripeIntegration |-> FALSE,
    enableAdvancedRiskAssessment |-> TRUE ]

\* the methods that return mock data at once while their flag is off
gatedOff(method, f) ==
  \/ method \in { "analyzeSample" } \cup ElevenLabsMethods /\ ~ f.useRealAudioAnalysis
  \/ method \in StripeMethods /\ ~ f.enableStripeIntegration

NoResult == [ kind |-> "", value |-> "", error |-> NoError ]
Real(value) == [ kind |-> "real", value |-> value, error |-> NoError ]
Mock(method) == [ kind |-> "mock", value |-> method, error |-> NoError ]
Null == [ kind |-> "null", value |-> "", error |-> NoError ]
Failure(error) == [ kind |-> "error", value |-> "", error |-> error ]

NoFetch == [ kind |-> "", status |-> 0, body |-> "" ]
NoCall == [ method |-> "", pc |-> "idle", fetched |-> NoFetch, result |-> NoResult ]

\* whether Response.json() succeeds on what was fetched
parses(fetched) == fetched.status # 204 /\ fetched.body \in { "completion", "json" }

\* the part of a service method that follows its apiService.post
afterPost(method, a) ==
  IF a.pc = "rejected" THEN Mock(method)
  ELSE IF method \in ElevenLabsMethods THEN Real(a.value)
  \* completionResponse.choices[0].message.content, JSON.parse of it
  ELSE IF a.value = "completion" THEN Real(a.value)
  ELSE Mock(method)

\* the part of a Stripe method that follows its fetch
afterFetch(method, fetched) ==
  IF fetched.kind = "networkError" THEN Failure(TypeError)
  ELSE IF ~ ok(fetched)
    THEN IF method = "getSubscriptionDetails" /\ fetched.status = 404
           THEN Null
           ELSE Failure([ name |-> "Error", status |-> 0, message |-> "Failed" ])
  ELSE IF method = "cancelSubscription" THEN Real("")
  ELSE IF ~ parses(fetched) THEN Failure(SyntaxError)
  ELSE Real(fetched.body)

(***************************************************************************)
(* What a fetch can produce                                                *)
(***************************************************************************)
Statuses == { 200, 204, 400, 404, 499, 500, 503 }
Bodies == { "completion", "json", "text", "garbled" }
Responses ==
  { [ kind |-> "response", status |-> st, body |-> b ] :
      st \in { 200 }, b \in Bodies }
  \cup { [ kind |-> "response", status |-> st, body |-> "json" ] :
           st \in Statuses \ { 200 } }
NetworkError == [ kind |-> "networkError", status |-> 0, body |-> "" ]
Abort == [ kind |-> "abort", status |-> 0, body |-> "" ]
MaxRetriesOptions == { <<>> } \cup { << n >> : n \in 0..MaxRetriesGiven }
TimeoutOptions == { <<>>, << 5000 >> }
Configs == [ maxRetries : MaxRetriesOptions, timeout : { <<>> } ]
Options == [ maxRetries : MaxRetriesOptions, timeout : TimeoutOptions ]

(***************************************************************************)
(* Calls of ApiService.request and of the service methods                  *)
(***************************************************************************)
NotCalled ==
  /\ flags = FEATURE_FLAGS
  /\ svc = NoCall
  /\ api = NoRequest

\* no calculateRiskScore call is made and nothing is displayed
NotAssessed ==
  /\ currentYear = 2024
  /\ args = [ sourceTrack |-> <<>>, originalArtist |-> <<>>,
              rightsHolder |-> "", releaseYear |-> 2024 - 10, label |-> <<>> ]
  /\ calls = <<>>
  /\ riskScore = 0
  /\ shown = NotShown

(***************************************************************************)
(* The hooks and components before they are mounted                        *)
(***************************************************************************)
NoSubscription == [ mounted |-> FALSE ]
NoHook         == [ mounted |-> FALSE ]
NoProject      == [ mounted |-> FALSE ]
NoSegments     == [ mounted |-> FALSE ]
NoAnalysis     == [ mounted |-> FALSE ]
NoChat         == [ mounted |-> FALSE ]
NoOffers       == [ mounted |-> FALSE ]

Unmounted ==
  /\ subscription = NoSubscription
  /\ hook = NoHook
  /\ project = NoProject
  /\ segments = NoSegments
  /\ analysis = NoAnalysis
  /\ chat = NoChat
  /\ offers = NoOffers

InitApi ==
  /\ NotAssessed
  /\ flags \in [ useRealAudioAnalysis : BOOLEAN, enableStripeIntegration : BOOLEAN,
                  enableAdvancedRiskAssessment : { TRUE } ]
  /\ svc = NoCall
  /\ api = NoRequest
  /\ Unmounted

\* a caller uses ApiService.request itself
Request(config, options) ==
  /\ svc.pc = "idle"
  /\ svc' = [ svc EXCEPT !.method = "request", !.pc = "requesting" ]
  /\ api' = request(config, options)
  /\ UNCHANGED << riskVars, flags >>
  /\ UNCHANGED uiVars

\* a service method runs up to its first await
Invoke(method) ==
  /\ svc.pc = "idle"
  /\ IF gatedOff(method, flags)
       THEN /\ svc' = [ svc EXCEPT !.method = method, !.pc = "returned",
                                   !.result = Mock(method) ]
            /\ api' = api
     ELSE IF method = "generateNegotiationTemplate"
             \/ method = "analyzeNegotiationResponse"
             \/ method \in ElevenLabsMethods
       THEN /\ svc' = [ svc EXCEPT !.method = method, !.pc = "requesting" ]
            /\ api' = request(IF method \in ElevenLabsMethods
                                 THEN elevenlabs ELSE openai, NoOptions)
     ELSE /\ svc' = [ svc EXCEPT !.method = method, !.pc = "fetching" ]
          /\ api' = api
  /\ UNCHANGED << riskVars, flags >>
  /\ UNCHANGED uiVars

\* the fetch of analyzeSample (the transcription) or of a Stripe method ends
Fetched(fetched) ==
  /\ svc.pc = "fetching"
  /\ IF svc.method = "analyzeSample"
       THEN IF fetched.kind = "response" /\ ok(fetched) /\ parses(fetched)
              THEN /\ svc' = [ svc EXCEPT !.pc = "requesting", !.fetched = fetched ]
                   /\ api' = request(openai, NoOptions)
              ELSE /\ svc' = [ svc EXCEPT !.pc = "returned", !.fetched = fetched,
                                          !.result = Mock(svc.method) ]
                   /\ api' = api
       ELSE LET r == afterFetch(svc.method, fetched)
            IN /\ svc' = [ svc EXCEPT
                             !.pc = IF r.kind = "error" THEN "threw" ELSE "returned",
                             !.fetched = fetched,
                             !.result = r ]
               /\ api' = api
  /\ UNCHANGED << riskVars, flags >>
  /\ UNCHANGED uiVars

\* one pass of the loop of request: the fetch ends, by a response, a network
\* failure or the timeout's abort, and the try and catch blocks run
Attempt(fetched) ==
  /\ api.pc = "fetch"
  /\ LET r == try(fetched)
         a == [ api EXCEPT !.log = Append(@, fetched) ]
     IN api' = IF r.threw THEN catch(a, r.error)
               ELSE [ a EXCEPT !.pc = "resolved", !.value = r.value ]
  /\ UNCHANGED << riskVars, flags, svc >>
  /\ UNCHANGED uiVars

\* the backoff delay elapses
Wake ==
  /\ api.pc = "backoff"
  /\ api' = [ api EXCEPT !.pc = "fetch", !.waits = Append(@, api.delay),
                         !.retries = @ + 1 ]
  /\ UNCHANGED << riskVars, flags, svc >>
  /\ UNCHANGED uiVars

\* the promise of request settles and its caller goes on
Settle ==
  /\ svc.pc = "requesting"
  /\ api.pc \in { "resolved", "rejected" }
  /\ svc' = IF svc.method = "request"
              THEN IF api.pc = "rejected"
                     THEN [ svc EXCEPT !.pc = "threw", !.result = Failure(api.thrown) ]
                     ELSE [ svc EXCEPT !.pc = "returned", !.result = Real(api.value) ]
              ELSE [ svc EXCEPT !.pc = "returned",
                                !.result = afterPost(svc.method, api) ]
  /\ UNCHANGED << riskVars, flags, api >>
  /\ UNCHANGED uiVars

NextApi ==
  \/ \E config \in Configs, options \in Options : Request(config, options)
  \/ \E method \in ServiceMethods : Invoke(method)
  \/ \E fetched \in Responses \cup { NetworkError } : Fetched(fetched)
  \/ \E fetched \in Responses \cup { NetworkError, Abort } : Attempt(fetched)
  \/ Wake
  \/ Settle

SpecApi == InitApi /\ [][NextApi]_vars

(***************************************************************************)
(* Calls of calculateRiskScore                                             *)
(***************************************************************************)
Init ==
  /\ currentYear = 2024
  /\ args \in Grid \cup Corners
  /\ calls = <<>>
  /\ riskScore = 0
  /\ shown = NotShown
  /\ NotCalled
  /\ Unmounted

\* the call, with the year the clock showed when it was made
Call(a) ==
  [ args   |-> a,
    year   |-> currentYear,
    result |-> calculateRiskScore(a.sourceTrack, a.originalArtist, a.rightsHolder,
                                  a.releaseYear, a.label) ]

Remember(c) == IF Len(calls) < 2 THEN Append(calls, c) ELSE << calls[2], c >>

\* the first evaluation, on the arguments as given
Calculate ==
  /\ calls = <<>>
  /\ calls' = Remember(Call(args))
  /\ UNCHANGED << currentYear, args, riskScore, shown, flags, svc, api >>
  /\ UNCHANGED uiVars

\* a further call, with releaseYear set to y
Recalculate(y) ==
  /\ calls # <<>>
  /\ args' = [ args EXCEPT !.releaseYear = y ]
  /\ calls' = Remember(Call(args'))
  /\ UNCHANGED << currentYear, riskScore, shown, flags, svc, api >>
  /\ UNCHANGED uiVars

\* a further call, with rightsHolder set to h
RecalculateFor(h) ==
  /\ calls # <<>>
  /\ args' = [ args EXCEPT !.rightsHolder = h ]
  /\ calls' = Remember(Call(args'))
  /\ UNCHANGED << currentYear, riskScore, shown, flags, svc, api >>
  /\ UNCHANGED uiVars

\* the calendar year rolls over
NewYear ==
  /\ currentYear < 2024 + YearsAhead
  /\ currentYear' = currentYear + 1
  /\ UNCHANGED << args, calls, riskScore, shown, flags, svc, api >>
  /\ UNCHANGED uiVars

Next ==
  \/ Calculate
  \/ \E y \in ReleaseYears : Recalculate(y)
  \/ \E h \in RightsHolders : RecalculateFor(h)
  \/ NewYear

Spec == Init /\ [][Next]_vars

(***************************************************************************)
(* The consumers of a risk score                                           *)
(***************************************************************************)
Display(s) ==
  [ aggregator |-> riskLevelOf(s),
    utility    |-> getRiskLevelColor(s).level,
    component  |-> getRiskLevel(s).level,
    badge      |-> getRiskBadge(s).label,
    cardColor  |-> getRiskColor(s) ]

\* useRiskAssessment mounted with its default inputs (no track or artist yet,
\* so its effect returns at once) and any initialRiskScore
InitLevels ==
  /\ currentYear = 2024
  /\ args = [ sourceTrack |-> <<>>, originalArtist |-> <<>>,
              rightsHolder |-> "", releaseYear |-> 2024 - 10, label |-> <<>> ]
  /\ calls = <<>>
  /\ riskScore \in Scores
  /\ shown = NotShown
  /\ NotCalled
  /\ Unmounted

Render ==
  /\ shown = NotShown
  /\ shown' = Display(riskScore)
  /\ UNCHANGED << currentYear, args, calls, riskScore, flags, svc, api >>
  /\ UNCHANGED uiVars

Clamp(x, lo, hi) == IF x < lo THEN lo ELSE IF x > hi THEN hi ELSE x

\* RiskAssessment.handleFactorAdjustment on a factor of score factorScore,
\* then useRiskAssessment.updateRiskScore, then the render that follows
HandleFactorAdjustment(factorScore, adjustment) ==
  LET newFactorContribution == Clamp(factorScore + adjustment, 0, 100)
      scoreDifference       == newFactorContribution - factorScore
      \* riskScore + scoreDifference / riskFactors.length, in quarters
      newRiskScore4         == Clamp(4 * riskScore + scoreDifference, 0, 4 * 100)
      newScore              == Clamp(MathRound(newRiskScore4, 4), 0, 100)
  IN /\ shown # NotShown
     /\ riskScore' = newScore
     /\ shown' = Display(newScore)
     /\ UNCHANGED << currentYear, args, calls, flags, svc, api >>
     /\ UNCHANGED uiVars

NextLevels ==
  \/ Render
  \/ \E f \in ComponentFactorScores, d \in Adjustments : HandleFactorAdjustment(f, d)

SpecLevels == InitLevels /\ [][NextLevels]_vars

(***************************************************************************)
(* useSubscription (lib/hooks/useSubscription.ts)                          *)
(***************************************************************************)
\* a limit of SUBSCRIPTION_LIMITS: a number, Infinity, or a list of formats
Number(n) == [ type |-> "number", finite |-> TRUE, n |-> n ]
Infinity  == [ type |-> "number", finite |-> FALSE, n |-> 0 ]
Formats   == [ type |-> "object", finite |-> FALSE, n |-> 0 ]

SUBSCRIPTION_LIMITS ==
  [ free    |-> [ searches |-> Number(3), projects |-> Number(5),
                  negotiationTemplates |-> Number(2), exportFormats |-> Formats ],
    pro     |-> [ searches |-> Infinity, projects |-> Infinity,
                  negotiationTemplates |-> Number(10), exportFormats |-> Formats ],
    premium |-> [ searches |-> Infinity, projects |-> Infinity,
                  negotiationTemplates |-> Infinity, exportFormats |-> Formats ] ]

\* count <= limit
atMost(count, limit) == ~ limit.finite \/ count <= limit.n

isFeatureAvailableBelow(tier, feature, count) ==
  LET limits == SUBSCRIPTION_LIMITS[tier]
  IN IF feature \notin DOMAIN limits THEN FALSE
     ELSE IF count # <<>>
       THEN IF limits[feature].type = "number"
              THEN ~ limits[feature].finite \/ count[1] < limits[feature].n
              ELSE TRUE
     ELSE TRUE

\* isFeatureAvailable(feature, count) while subscriptionTier is tier; count is
\* <<>> when the caller leaves it out
isFeatureAvailable(tier, feature, count) ==
  LET limits == SUBSCRIPTION_LIMITS[tier]
  IN IF feature \notin DOMAIN limits THEN FALSE
     ELSE IF count # <<>>
       THEN IF limits[feature].type = "number"
              THEN atMost(count[1], limits[feature])
              ELSE TRUE
     ELSE TRUE

Tiers == { "free", "pro", "premium" }
Features ==
  { "searches", "projects", "negotiationTemplates", "exportFormats", "apiAccess" }
Counts == { <<>> } \cup { << n >> : n \in 0..MaxCount }
NotAsked == [ free |-> "", pro |-> "", premium |-> "" ]

\* the hook mounted with some initialTier; feature and count are what its
\* caller goes on to ask about
InitSubscription ==
  /\ NotAssessed
  /\ NotCalled
  /\ subscription \in
       [ mounted : { TRUE }, subscriptionTier : Tiers, feature : Features,
         count : Counts, answers : { NotAsked } ]
  /\ hook = NoHook
  /\ project = NoProject
  /\ segments = NoSegments
  /\ analysis = NoAnalysis
  /\ chat = NoChat
  /\ offers = NoOffers

besidesSubscription ==
  << riskVars, apiVars, hook, project, segments, analysis, chat, offers >>

\* upgradeTier, with the Stripe integration off
UpgradeTier(tier) ==
  /\ ~ flags.enableStripeIntegration
  /\ subscription' = [ subscription EXCEPT !.subscriptionTier = tier ]
  /\ UNCHANGED besidesSubscription

\* downgradeTier, with the Stripe integration off
DowngradeTier(tier) ==
  /\ ~ flags.enableStripeIntegration
  /\ subscription' = [ subscription EXCEPT !.subscriptionTier = tier ]
  /\ UNCHANGED besidesSubscription

\* cancelSubscription, with the Stripe integration off
CancelSubscription ==
  /\ ~ flags.enableStripeIntegration
  /\ subscription' = [ subscription EXCEPT !.subscriptionTier = "free" ]
  /\ UNCHANGED besidesSubscription

\* the caller asks isFeatureAvailable(feature, count) and keeps the answer
\* next to the tier it was given in
AskFeature ==
  /\ subscription' =
       [ subscription EXCEPT
           !.answers[subscription.subscriptionTier] =
             IF isFeatureAvailable(subscription.subscriptionTier,
                                   subscription.feature, subscription.count)
               THEN "true" ELSE "false" ]
  /\ UNCHANGED besidesSubscription

NextSubscription ==
  \/ \E tier \in { "pro", "premium" } : UpgradeTier(tier)
  \/ \E tier \in { "free", "pro" } : DowngradeTier(tier)
  \/ CancelSubscription
  \/ AskFeature

SpecSubscription == InitSubscription /\ [][NextSubscription]_vars

(***************************************************************************)
(* useRiskAssessment (hooks/useRiskAssessment)                             *)
(***************************************************************************)
\* a JavaScript number that may be NaN
Num(n) == [ isNaN |-> FALSE, n |-> n ]
NaN    == [ isNaN |-> TRUE, n |-> 0 ]

\* x >= k, which is false of NaN
atLeast(x, k) == ~ x.isNaN /\ x.n >= k

\* newScore >= 70 ? 'high' : newScore >= 40 ? 'medium' : 'low'
levelOf(x) ==
  IF atLeast(x, 70) THEN "high" ELSE IF atLeast(x, 40) THEN "medium" ELSE "low"

\* the total that updateRiskFactor derives from the factors:
\* Math.round(weightedSum / totalWeight), where 0 / 0 is NaN
recalculated(updatedFactors) ==
  LET totalWeight == reduceWeight(updatedFactors)
  IN IF totalWeight = 0 THEN NaN
     ELSE Num(MathRound(reduceScore(updatedFactors), totalWeight))

NoInputs ==
  [ sourceTrack |-> <<>>, originalArtist |-> <<>>, rightsHolder |-> "",
    releaseYear |-> 2024 - 10, label |-> <<>> ]
HookInputs ==
  { NoInputs,
    [ sourceTrack |-> FunkyDrummerJamesBrown, originalArtist |-> JamesBrown,
      rightsHolder |-> "", releaseYear |-> 2024, label |-> UniversalMusicGroup ],
    [ sourceTrack |-> UnknownTrack, originalArtist |-> UnknownArtist,
      rightsHolder |-> "", releaseYear |-> 1970, label |-> IndieRecordsCo ] }
InitialRiskScores == { <<>>, << 0 >>, << 40 >>, << 85 >> }
ManualScores == { 0 - 10, 0, 39, 40, 69, 70, 100, 150 }
FactorNames ==
  { "Label Ownership", "Track Age", "Artist Popularity", "Previous Sample Usage",
    "Genre" }
FactorAdjustments == { 0 - 10, 10, 25 }

\* the first render: the useState initialisers, with the effect still to run
mounted(inputs, initialRiskScore) ==
  [ mounted          |-> TRUE,
    inputs           |-> inputs,
    initialRiskScore |-> initialRiskScore,
    riskScore        |-> Num(OrElse(initialRiskScore, 0)),
    riskLevel        |-> "low",
    riskFactors      |-> <<>>,
    effect           |-> TRUE,
    last             |-> "mount",
    updates          |-> 0 ]

InitHook ==
  /\ NotAssessed
  /\ flags \in [ useRealAudioAnalysis : { FALSE }, enableStripeIntegration : { FALSE },
                  enableAdvancedRiskAssessment : BOOLEAN ]
  /\ svc = NoCall
  /\ api = NoRequest
  /\ subscription = NoSubscription
  /\ hook \in { mounted(i, s) : i \in HookInputs, s \in InitialRiskScores }
  /\ project = NoProject
  /\ segments = NoSegments
  /\ analysis = NoAnalysis
  /\ chat = NoChat
  /\ offers = NoOffers

besidesHook ==
  << riskVars, apiVars, subscription, project, segments, analysis, chat, offers >>

\* the effect that follows a render in which one of its dependencies changed
RunEffect ==
  /\ hook.effect
  /\ hook' =
       IF hook.inputs.sourceTrack = <<>> \/ hook.inputs.originalArtist = <<>>
         THEN [ hook EXCEPT !.effect = FALSE, !.last = "effect" ]
       ELSE IF hook.initialRiskScore # <<>> /\ ~ flags.enableAdvancedRiskAssessment
         THEN [ hook EXCEPT !.effect = FALSE, !.last = "effect",
                            !.riskScore = Num(hook.initialRiskScore[1]),
                            !.riskLevel = levelOf(Num(hook.initialRiskScore[1])) ]
       ELSE LET result == calculateRiskScore(hook.inputs.sourceTrack,
                                             hook.inputs.originalArtist,
                                             hook.inputs.rightsHolder,
                                             hook.inputs.releaseYear,
                                             hook.inputs.label)
            IN [ hook EXCEPT !.effect = FALSE, !.last = "effect",
                             !.riskScore = Num(result.totalScore),
                             !.riskLevel = result.riskLevel,
                             !.riskFactors = result.factors ]
  /\ UNCHANGED besidesHook

\* the parent renders the hook with other inputs
ChangeInputs(inputs) ==
  /\ ~ hook.effect
  /\ inputs # hook.inputs
  /\ hook' = [ hook EXCEPT !.inputs = inputs, !.effect = TRUE, !.last = "render" ]
  /\ UNCHANGED besidesHook

UpdateRiskScore(manual) ==
  /\ ~ hook.effect
  /\ LET newScore == Num(Clamp(manual, 0, 100))
     IN hook' = [ hook EXCEPT !.riskScore = newScore,
                              !.riskLevel = levelOf(newScore),
                              !.last = "updateRiskScore" ]
  /\ UNCHANGED besidesHook

UpdateRiskFactor(factorName, adjustment) ==
  /\ ~ hook.effect
  /\ hook.updates < MaxFactorUpdates
  /\ LET updatedFactors ==
           [ k \in 1..Len(hook.riskFactors) |->
               IF hook.riskFactors[k].name = factorName
                 THEN [ hook.riskFactors[k] EXCEPT
                          !.score = Clamp(@ + adjustment, 0, 100) ]
                 ELSE hook.riskFactors[k] ]
         newTotalScore == recalculated(updatedFactors)
     IN hook' = [ hook EXCEPT !.riskFactors = updatedFactors,
                              !.riskScore = newTotalScore,
                              !.riskLevel = levelOf(newTotalScore),
                              !.last = "updateRiskFactor",
                              !.updates = @ + 1 ]
  /\ UNCHANGED besidesHook

NextHook ==
  \/ RunEffect
  \/ \E inputs \in HookInputs : ChangeInputs(inputs)
  \/ \E manual \in ManualScores : UpdateRiskScore(manual)
  \/ \E factorName \in FactorNames, adjustment \in FactorAdjustments :
       UpdateRiskFactor(factorName, adjustment)

SpecHook == InitHook /\ [][NextHook]_vars

(***************************************************************************)
(* ProjectDetail.handleSendMessage and AppContext.updateProject            *)
(***************************************************************************)
SimulatedResponse == "Thank you for your inquiry."

\* a NegotiationAttempt as handleSendMessage builds it at clock reading now
newAttempt(now, content) ==
  [ attemptId |-> now, content |-> content, status |-> "sent", response |-> "" ]

responseAttempt(attempt) ==
  [ attempt EXCEPT !.response = SimulatedResponse, !.status = "responded" ]

\* updatedNegotiationLog.map(attempt => attempt.attemptId === id ? ... : attempt)
mapResponse(log, attempt) ==
  [ k \in 1..Len(log) |->
      IF log[k].attemptId = attempt.attemptId THEN responseAttempt(attempt)
      ELSE log[k] ]

\* updateProject on the current project: { ...prev, ...updates }
updateProject(prev, updates) ==
  [ prev EXCEPT !.negotiationLog = updates.negotiationLog,
                !.clearanceStatus = updates.clearanceStatus ]

Contents == { "Request to clear", "Follow-up" }
EarlierLogs ==
  { <<>>,
    << [ attemptId |-> 0, content |-> "Earlier request", status |-> "responded",
         response |-> SimulatedResponse ] >> }

\* the page open on a project; the clock has passed the earlier attempts
InitProject ==
  /\ NotAssessed
  /\ NotCalled
  /\ subscription = NoSubscription
  /\ hook = NoHook
  /\ project \in
       [ mounted : { TRUE }, now : { 1 },
         currentProject :
           [ negotiationLog : EarlierLogs, clearanceStatus : { "pending" } ],
         timers : { <<>> }, sent : { <<>> }, fired : { {} } ]
  /\ segments = NoSegments
  /\ analysis = NoAnalysis
  /\ chat = NoChat
  /\ offers = NoOffers

besidesProject ==
  << riskVars, apiVars, subscription, hook, segments, analysis, chat, offers >>

\* handleSendMessage in the latest render, some time after the send before
\* it; the timer keeps newAttempt and updatedNegotiationLog of this call
HandleSendMessage(content) ==
  /\ Len(project.sent) < MaxSends
  /\ LET attempt == newAttempt(project.now, content)
         updatedNegotiationLog == Append(project.currentProject.negotiationLog, attempt)
     IN project' =
          [ project EXCEPT
              !.now = @ + 1,
              !.currentProject =
                 updateProject(@, [ negotiationLog |-> updatedNegotiationLog,
                                    clearanceStatus |-> "negotiating" ]),
              !.timers = Append(@, [ newAttempt |-> attempt,
                                     updatedNegotiationLog |-> updatedNegotiationLog ]),
              !.sent = Append(@, attempt.attemptId) ]
  /\ UNCHANGED besidesProject

\* the oldest pending 2-second timer fires
TimerFires ==
  /\ project.timers # <<>>
  /\ LET timer == Head(project.timers)
         updatedLog == mapResponse(timer.updatedNegotiationLog, timer.newAttempt)
     IN project' =
          [ project EXCEPT
              !.currentProject =
                 updateProject(@, [ negotiationLog |-> updatedLog,
                                    clearanceStatus |-> @.clearanceStatus ]),
              !.timers = Tail(@),
              !.fired = @ \cup { timer.newAttempt.attemptId } ]
  /\ UNCHANGED besidesProject

NextProject ==
  \/ \E content \in Contents : HandleSendMessage(content)
  \/ TimerFires

SpecProject == InitProject /\ [][NextProject]_vars

(***************************************************************************)
(* useSampleSegments (lib/hooks/useSampleSegments.ts)                      *)
(***************************************************************************)
\* An array is its identity (ref) and its items; items are segment ids.  The
\* hook's caller either leaves initialSegments out, so that every render
\* evaluates the default [] anew, or passes one array that it keeps.
Array(ref, items) == [ ref |-> ref, items |-> items ]

SegmentIds == 1..(4 * MaxRenders + 2)

\* the first render: useState(initialSegments), both effects still to run
InitSegments ==
  /\ NotAssessed
  /\ NotCalled
  /\ subscription = NoSubscription
  /\ hook = NoHook
  /\ project = NoProject
  /\ segments \in
       [ mounted : { TRUE }, caller : { "default", "kept" },
         initialSegments : { Array(1, <<>>) }, state : { Array(1, <<>>) },
         deps : { 0 }, effect : { TRUE }, dirty : { FALSE }, renders : { 1 },
         fresh : { 2 }, added : { {} } ]
  /\ analysis = NoAnalysis
  /\ chat = NoChat
  /\ offers = NoOffers

besidesSegments ==
  << riskVars, apiVars, subscription, hook, project, analysis, chat, offers >>

\* setSegments(next): React keeps the state and schedules no render when
\* next is the very array it holds
setSegments(s, next) ==
  IF next.ref = s.state.ref THEN s
  ELSE [ s EXCEPT !.state = next, !.dirty = TRUE ]

\* setSegments of an array made in the call: never the array held
setSegmentsNew(s, items) ==
  [ s EXCEPT !.state = Array(s.fresh, items), !.fresh = @ + 1, !.dirty = TRUE ]

\* the effect on [initialSegments], run after a render in which
\* initialSegments is not the array of the render before
SyncEffect ==
  /\ segments.effect
  /\ segments' =
       [ setSegments(segments, segments.initialSegments) EXCEPT
           !.effect = FALSE, !.deps = segments.initialSegments.ref ]
  /\ UNCHANGED besidesSegments

\* the hook function runs again, because its state changed or because its
\* parent rendered
RenderSegments ==
  /\ ~ segments.effect
  /\ segments.renders < MaxRenders
  /\ LET initialSegments ==
           IF segments.caller = "default" THEN Array(segments.fresh, <<>>)
           ELSE segments.initialSegments
     IN segments' =
          [ segments EXCEPT
              !.initialSegments = initialSegments,
              !.fresh = IF segments.caller = "default" THEN @ + 1 ELSE @,
              !.effect = initialSegments.ref # segments.deps,
              !.dirty = FALSE,
              !.renders = @ + 1 ]
  /\ UNCHANGED besidesSegments

\* the handlers run between renders, once the effects have run
Idle == ~ segments.effect /\ ~ segments.dirty

\* addSegment: segmentId is the clock reading, here the next unused number
AddSegment ==
  /\ Idle
  /\ LET segmentId == segments.fresh
         s == [ segments EXCEPT !.fresh = @ + 1, !.added = @ \cup { segmentId } ]
     IN segments' = setSegmentsNew(s, Append(s.state.items, segmentId))
  /\ UNCHANGED besidesSegments

\* importFromAnalysis of count analysis segments
ImportFromAnalysis(count) ==
  /\ Idle
  /\ LET newSegments == [ k \in 1..count |-> segments.fresh + k - 1 ]
         s == [ segments EXCEPT
                  !.fresh = @ + count,
                  !.added = @ \cup { newSegments[k] : k \in 1..count } ]
     IN segments' = setSegmentsNew(s, s.state.items \o newSegments)
  /\ UNCHANGED besidesSegments

\* deleteSegment of a segment that was added at some time
DeleteSegment(segmentId) ==
  /\ Idle
  /\ segmentId \in segments.added
  /\ LET s == [ segments EXCEPT !.added = @ \ { segmentId } ]
     IN segments' =
          setSegmentsNew(s, SelectSeq(s.state.items, LAMBDA id : id # segmentId))
  /\ UNCHANGED besidesSegments

ClearSegments ==
  /\ Idle
  /\ segments' = setSegmentsNew([ segments EXCEPT !.added = {} ], <<>>)
  /\ UNCHANGED besidesSegments

NextSegments ==
  \/ SyncEffect
  \/ RenderSegments
  \/ AddSegment
  \/ \E count \in 1..2 : ImportFromAnalysis(count)
  \/ \E segmentId \in SegmentIds : DeleteSegment(segmentId)
  \/ ClearSegments

SpecSegments == InitSegments /\ [][NextSegments]_vars

(***************************************************************************)
(* useAudioAnalysis.analyzeSample (hooks/useAudioAnalysis.ts)              *)
(***************************************************************************)
\* what Math.random() * 10 adds to progress, in whole points
RandomSteps == { 0, 4, 9 }

\* the updater that the interval hands to setProgress
tick(prev, step) == IF prev + step > 90 THEN 90 ELSE prev + step

\* the first await of a call: the service call, or the 3-second mock delay
firstAwait(f) == IF f.useRealAudioAnalysis THEN "analyzeSample" ELSE "delay"

\* openaiService.analyzeSample and elevenlabsService.extractAudioFeatures
\* catch every failure and return mock data, and the delay's promise is only
\* ever resolved: no await of analyzeSample rejects
InitAnalysis ==
  /\ NotAssessed
  /\ flags \in [ useRealAudioAnalysis : BOOLEAN, enableStripeIntegration : { FALSE },
                  enableAdvancedRiskAssessment : { TRUE } ]
  /\ svc = NoCall
  /\ api = NoRequest
  /\ subscription = NoSubscription
  /\ hook = NoHook
  /\ project = NoProject
  /\ segments = NoSegments
  /\ analysis =
       [ mounted |-> TRUE, isAnalyzing |-> FALSE, progress |-> 0, error |-> "",
         hasResult |-> FALSE, calls |-> <<>>, frozen |-> <<>> ]
  /\ chat = NoChat
  /\ offers = NoOffers

besidesAnalysis ==
  << riskVars, apiVars, subscription, hook, project, segments, chat, offers >>

\* analyzeSample up to its first await: the state is reset and the progress
\* interval is started
AnalyzeSample ==
  /\ Len(analysis.calls) < MaxCalls
  /\ analysis' =
       [ analysis EXCEPT
           !.isAnalyzing = TRUE,
           !.progress = 0,
           !.error = "",
           !.calls = Append(@, [ awaiting |-> firstAwait(flags), interval |-> TRUE ]),
           !.frozen = <<>> ]
  /\ UNCHANGED besidesAnalysis

\* the progress interval of call i fires
ProgressInterval(i, step) ==
  /\ i \in 1..Len(analysis.calls)
  /\ analysis.calls[i].interval
  /\ analysis' = [ analysis EXCEPT !.progress = tick(@, step) ]
  /\ UNCHANGED besidesAnalysis

\* openaiService.analyzeSample returns to call i, which goes on to
\* elevenlabsService.extractAudioFeatures
Analyzed(i) ==
  /\ i \in 1..Len(analysis.calls)
  /\ analysis.calls[i].awaiting = "analyzeSample"
  /\ analysis' = [ analysis EXCEPT !.calls[i].awaiting = "extractAudioFeatures" ]
  /\ UNCHANGED besidesAnalysis

\* the last await of call i ends: the rest of the try block and the finally
\* block run, and the promise of call i resolves
Resolved(i) ==
  /\ i \in 1..Len(analysis.calls)
  /\ analysis.calls[i].awaiting \in { "extractAudioFeatures", "delay" }
  \* timers of equal delay fire in the order they were set
  /\ \A j \in 1..(i - 1) : analysis.calls[j].awaiting # "delay"
  /\ analysis' =
       [ analysis EXCEPT
           !.calls[i] = [ awaiting |-> "", interval |-> FALSE ],
           !.progress = 100,
           !.hasResult = TRUE,
           !.isAnalyzing = FALSE,
           !.frozen = << 100 >> ]
  /\ UNCHANGED besidesAnalysis

NextAnalysis ==
  \/ AnalyzeSample
  \/ \E i \in 1..MaxCalls, step \in RandomSteps : ProgressInterval(i, step)
  \/ \E i \in 1..MaxCalls : Analyzed(i)
  \/ \E i \in 1..MaxCalls : Resolved(i)

SpecAnalysis == InitAnalysis /\ [][NextAnalysis]_vars

(***************************************************************************)
(* ChatThread.handleSendMessage (components/ChatThread.tsx)                *)
(***************************************************************************)
\* prev.map(msg => msg.id === messageId ? { ...msg, status } : msg)
mapStatus(prev, messageId, status) ==
  [ k \in 1..Len(prev) |->
      IF prev[k].id = messageId THEN [ prev[k] EXCEPT !.status = status ]
      ELSE prev[k] ]

\* the thread as mounted, with no initialMessages; now is what Date.now()
\* returns, in milliseconds after the mount
InitChat ==
  /\ NotAssessed
  /\ NotCalled
  /\ subscription = NoSubscription
  /\ hook = NoHook
  /\ project = NoProject
  /\ segments = NoSegments
  /\ analysis = NoAnalysis
  /\ chat = [ mounted |-> TRUE, now |-> 0, newMessage |-> "", messages |-> <<>>,
              isLoading |-> FALSE, error |-> "", sends |-> <<>> ]
  /\ offers = NoOffers

besidesChat ==
  << riskVars, apiVars, subscription, hook, project, segments, analysis, offers >>

\* the user types into the textarea
TypeMessage(text) ==
  /\ chat.newMessage # text
  /\ chat' = [ chat EXCEPT !.newMessage = text ]
  /\ UNCHANGED besidesChat

\* a millisecond passes
Millisecond ==
  /\ chat.now < MaxMessages
  /\ chat' = [ chat EXCEPT !.now = @ + 1 ]
  /\ UNCHANGED besidesChat

\* handleSendMessage up to its await, from the send button or from the Enter
\* key, which is not held back while a send is loading
HandleSendMessageChat ==
  /\ Len(chat.sends) < MaxMessages
  /\ chat' =
       IF chat.newMessage = "" THEN chat
       ELSE LET messageId == chat.now
            IN [ chat EXCEPT
                   !.isLoading = TRUE,
                   !.error = "",
                   !.messages = Append(@, [ id |-> messageId,
                                            content |-> chat.newMessage,
                                            status |-> "sent" ]),
                   !.newMessage = "",
                   !.sends = Append(@, [ messageId |-> messageId,
                                         at |-> Len(chat.messages) + 1,
                                         outcome |-> "pending" ]) ]
  /\ UNCHANGED besidesChat

\* onSendMessage of send i settles: the rest of the try block or the catch
\* block runs, then the finally block
SendSettles(i, outcome) ==
  /\ i \in 1..Len(chat.sends)
  /\ chat.sends[i].outcome = "pending"
  /\ chat' =
       [ chat EXCEPT
           !.messages = mapStatus(@, chat.sends[i].messageId,
                                  IF outcome = "resolved" THEN "delivered"
                                  ELSE "failed"),
           !.error = IF outcome = "resolved" THEN @ ELSE "Failed to send message",
           !.isLoading = FALSE,
           !.sends[i].outcome = outcome ]
  /\ UNCHANGED besidesChat

NextChat ==
  \/ \E text \in { "", "Hello", "Any news?" } : TypeMessage(text)
  \/ Millisecond
  \/ HandleSendMessageChat
  \/ \E i \in 1..MaxMessages, outcome \in { "resolved", "rejected" } :
       SendSettles(i, outcome)

SpecChat == InitChat /\ [][NextChat]_vars

(***************************************************************************)
(* OfferTracker (components/OfferTracker.tsx)                              *)
(*                                                                         *)
(* An optional amount is <<>> when undefined and << x >> otherwise, x      *)
(* being Num(n) or NaN.  advanceAmount, notes and counter offers are left  *)
(* out.                                                                    *)
(***************************************************************************)
\* parseFloat(e.target.value) of the texts a number input is given here
parseFloat(text) ==
  CASE text = ""    -> << NaN >>
    [] text = "0"   -> << Num(0) >>
    [] text = "500" -> << Num(500) >>

\* the truth value JavaScript gives an optional amount: undefined, NaN and 0
\* are falsy
truthy(amount) == amount # <<>> /\ ~ amount[1].isNaN /\ amount[1].n # 0

\* useState({ type: 'flat', status: 'pending' })
BlankOffer ==
  [ type |-> "flat", flatFee |-> <<>>, royaltyPercentage |-> <<>>,
    status |-> "pending" ]

\* the condition of handleAddOffer
hasRequiredAmounts(newOffer) ==
  \/ newOffer.type = "flat" /\ truthy(newOffer.flatFee)
  \/ newOffer.type = "royalty" /\ truthy(newOffer.royaltyPercentage)
  \/ newOffer.type = "hybrid" /\ truthy(newOffer.flatFee)
       /\ truthy(newOffer.royaltyPercentage)

\* offers.map(offer => offer.id === offerId ? { ...offer, ...updates } : offer),
\* updates being one field
mapOffer(list, offerId, field, value) ==
  [ k \in 1..Len(list) |->
      IF list[k].id = offerId THEN [ list[k] EXCEPT ![field] = value ]
      ELSE list[k] ]

\* offers.filter(offer => offer.id !== offerId)
filterOffers(list, offerId) == SelectSeq(list, LAMBDA offer : offer.id # offerId)

listed(offerId) == \E k \in 1..Len(offers.list) : offers.list[k].id = offerId

typeOf(offerId) ==
  { offers.list[k].type : k \in { j \in 1..Len(offers.list) :
                                    offers.list[j].id = offerId } }

\* the tracker as the App mounts it, with useState<Offer[]>([]) as offers;
\* now is what Date.now() returns, in milliseconds after the mount; last
\* remembers of the latest call of handleAddOffer whether the form had the
\* amounts its type requires, by how much the list grew and the status of the
\* offer it appended
InitOffers ==
  /\ NotAssessed
  /\ NotCalled
  /\ subscription = NoSubscription
  /\ hook = NoHook
  /\ project = NoProject
  /\ segments = NoSegments
  /\ analysis = NoAnalysis
  /\ chat = NoChat
  /\ offers = [ mounted |-> TRUE, now |-> 0, list |-> <<>>,
                showNewOfferForm |-> FALSE, editingOfferId |-> <<>>,
                newOffer |-> BlankOffer,
                last |-> [ called |-> FALSE, complete |-> FALSE,
                           grown |-> 0, status |-> "" ] ]

besidesOffers ==
  << riskVars, apiVars, subscription, hook, project, segments, analysis, chat >>

MillisecondOffers ==
  /\ offers.now < MaxOffers
  /\ offers' = [ offers EXCEPT !.now = @ + 1 ]
  /\ UNCHANGED besidesOffers

\* the New Offer button and the Cancel button of the form
ShowNewOfferForm(show) ==
  /\ offers.showNewOfferForm # show
  /\ offers' = [ offers EXCEPT !.showNewOfferForm = show ]
  /\ UNCHANGED besidesOffers

SelectType(type) ==
  /\ offers.showNewOfferForm
  /\ offers.newOffer.type # type
  /\ offers' = [ offers EXCEPT !.newOffer.type = type ]
  /\ UNCHANGED besidesOffers

EnterFlatFee(text) ==
  /\ offers.showNewOfferForm
  /\ offers.newOffer.type \in { "flat", "hybrid" }
  /\ offers' = [ offers EXCEPT !.newOffer.flatFee = parseFloat(text) ]
  /\ UNCHANGED besidesOffers

EnterRoyaltyPercentage(text) ==
  /\ offers.showNewOfferForm
  /\ offers.newOffer.type \in { "royalty", "hybrid" }
  /\ offers' = [ offers EXCEPT !.newOffer.royaltyPercentage = parseFloat(text) ]
  /\ UNCHANGED besidesOffers

HandleAddOffer ==
  /\ offers.showNewOfferForm
  /\ Len(offers.list) < MaxOffers
  /\ LET newOffer == offers.newOffer
         offer    == [ id |-> offers.now,
                       type |-> newOffer.type,
                       flatFee |-> newOffer.flatFee,
                       royaltyPercentage |-> newOffer.royaltyPercentage,
                       status |-> "pending" ]
         after    == IF hasRequiredAmounts(newOffer)
                     THEN Append(offers.list, offer) ELSE offers.list
         called   == [ called |-> TRUE,
                       complete |-> hasRequiredAmounts(newOffer),
                       grown |-> Len(after) - Len(offers.list),
                       status |-> IF after = offers.list THEN ""
                                  ELSE after[Len(after)].status ]
     IN offers' =
          IF hasRequiredAmounts(newOffer)
          THEN [ offers EXCEPT !.list = after,
                               !.newOffer = BlankOffer,
                               !.showNewOfferForm = FALSE,
                               !.last = called ]
          ELSE [ offers EXCEPT !.last = called ]
  /\ UNCHANGED besidesOffers

\* the edit button of an offer
EditOffer(offerId) ==
  /\ listed(offerId)
  /\ offers.editingOfferId # << offerId >>
  /\ offers' = [ offers EXCEPT !.editingOfferId = << offerId >> ]
  /\ UNCHANGED besidesOffers

\* handleUpdateOffer, from the onChange of an amount of the offer being edited
HandleUpdateOffer(offerId, field, text) ==
  /\ listed(offerId)
  /\ offers.editingOfferId = << offerId >>
  /\ \/ field = "flatFee" /\ typeOf(offerId) \cap { "flat", "hybrid" } # {}
     \/ field = "royaltyPercentage"
          /\ typeOf(offerId) \cap { "royalty", "hybrid" } # {}
  /\ offers' = [ offers EXCEPT
                   !.list = mapOffer(@, offerId, field, parseFloat(text)),
                   !.editingOfferId = <<>> ]
  /\ UNCHANGED besidesOffers

HandleDeleteOffer(offerId) ==
  /\ listed(offerId)
  /\ offers.editingOfferId # << offerId >>
  /\ offers' = [ offers EXCEPT !.list = filterOffers(@, offerId) ]
  /\ UNCHANGED besidesOffers

\* handleOfferResponse, from the buttons shown under a pending offer that is
\* not being edited
HandleOfferResponse(offerId, status) ==
  /\ \E k \in 1..Len(offers.list) :
       offers.list[k].id = offerId /\ offers.list[k].status = "pending"
  /\ offers.editingOfferId # << offerId >>
  /\ offers' = [ offers EXCEPT !.list = mapOffer(@, offerId, "status", status) ]
  /\ UNCHANGED besidesOffers

OfferIds == 0..MaxOffers

AmountTexts == { "", "0", "500" }

NextOffers ==
  \/ MillisecondOffers
  \/ \E show \in BOOLEAN : ShowNewOfferForm(show)
  \/ \E type \in { "flat", "royalty", "hybrid" } : SelectType(type)
  \/ \E text \in AmountTexts : EnterFlatFee(text)
  \/ \E text \in AmountTexts : EnterRoyaltyPercentage(text)
  \/ HandleAddOffer
  \/ \E offerId \in OfferIds : EditOffer(offerId)
  \/ \E offerId \in OfferIds, field \in { "flatFee", "royaltyPercentage" },
        text \in AmountTexts : HandleUpdateOffer(offerId, field, text)
  \/ \E offerId \in OfferIds : HandleDeleteOffer(offerId)
  \/ \E offerId \in OfferIds, status \in { "accepted", "rejected" } :
       HandleOfferResponse(offerId, status)

SpecOffers == InitOffers /\ [][NextOffers]_vars

(***************************************************************************)
(* Properties of calculateRiskScore, stated of every remembered call       *)
(***************************************************************************)
Made == { calls[i] : i \in 1..Len(calls) }

LabelOf(c)      == c.result.factors[1]
AgeOf(c)        == c.result.factors[2]
PopularityOf(c) == c.result.factors[3]
UsageOf(c)      == c.result.factors[4]

\* sum of score x weight and sum of weight over the four returned factors
WeightedSum(c) ==
  LabelOf(c).score * LabelOf(c).weight + AgeOf(c).score * AgeOf(c).weight
  + PopularityOf(c).score * PopularityOf(c).weight + UsageOf(c).score * UsageOf(c).weight

WeightSum(c) ==
  LabelOf(c).weight + AgeOf(c).weight + PopularityOf(c).weight + UsageOf(c).weight

HighImpact(c) == { k \in 1..Len(c.result.factors) : c.result.factors[k].impact = "high" }

\* C1: totalScore is the weighted mean of the four returned factors, with the
\* returned weights, rounded to the nearest integer (a tie rounds up):
\* totalScore - 1/2 <= sum / weight < totalScore + 1/2.
C1_TotalIsRoundedWeightedMean ==
  \A c \in Made :
    /\ Len(c.result.factors) = 4
    /\ 2 * c.result.totalScore * WeightSum(c) - WeightSum(c) <= 2 * WeightedSum(c)
    /\ 2 * WeightedSum(c) < 2 * c.result.totalScore * WeightSum(c) + WeightSum(c)

\* a call whose mean is not an integer and was rounded up
C1_Witness ==
  \E c \in Made : c.result.totalScore * WeightSum(c) > WeightedSum(c)

\* C2: riskLevel is "high" iff totalScore >= 70, "medium" iff
\* 40 <= totalScore < 70, "low" iff totalScore < 40.
C2_LevelMatchesThresholds ==
  \A c \in Made :
    /\ c.result.riskLevel = "high"   <=> c.result.totalScore >= 70
    /\ c.result.riskLevel = "medium" <=> (40 <= c.result.totalScore /\ c.result.totalScore < 70)
    /\ c.result.riskLevel = "low"    <=> c.result.totalScore < 40

\* a result exactly on the high threshold
C2_Witness ==
  \E c \in Made : c.result.totalScore = 70 /\ c.result.riskLevel = "high"

\* C3: every consumer of a score in 0..100 shows the same class: high at
\* 70 and above, medium at 40..69, low below 40.
ClassOf(s) == IF s >= 70 THEN "high" ELSE IF s >= 40 THEN "medium" ELSE "low"

Shows(class) ==
  /\ shown.aggregator = class
  /\ shown.utility    = (CASE class = "high" -> "High" [] class = "medium" -> "Medium" [] OTHER -> "Low")
  /\ shown.component  = shown.utility
  /\ shown.badge      = (CASE class = "high" -> "High Risk" [] class = "medium" -> "Medium Risk" [] OTHER -> "Low Risk")
  /\ shown.cardColor  = (CASE class = "high" -> "text-red-500" [] class = "medium" -> "text-yellow-500" [] OTHER -> "text-green-500")

C3_ConsumersAgree ==
  shown # NotShown => Shows(ClassOf(riskScore))

\* C4 as claimed: a label without a major-label fragment gives weight 2.
\* Of the labels tried, "Universal Music Group" and "Polydor Records" hold a
\* fragment; "sony music" holds one only in the wrong case.
WithMajorFragment == { UniversalMusicGroup, PolydorRecords }

LabelFactorIs(c, sc, wt, imp) ==
  /\ LabelOf(c).score = sc
  /\ LabelOf(c).weight = wt
  /\ LabelOf(c).impact = imp

ScenarioB(c) ==
  /\ c.args.label \notin WithMajorFragment
  /\ c.args.originalArtist = UnknownArtist
  /\ c.args.sourceTrack = UnknownTrack
  /\ c.args.releaseYear = c.year

FactorIs(f, sc, wt) == f.score = sc /\ f.weight = wt

ScenarioA(c) ==
  /\ c.args.sourceTrack = FunkyDrummerJamesBrown
  /\ c.args.originalArtist = JamesBrown
  /\ c.args.label = PolydorRecords
  /\ c.args.releaseYear = 1970
  /\ c.year = 2024

\* C6: scenario A gives label 80 / high, age 30 / low, popularity 85 / high,
\* usage 70 / high, a weighted mean of 68.75, totalScore 69, level "medium".
C6_ScenarioA ==
  \A c \in Made :
    ScenarioA(c) =>
      /\ LabelOf(c).score = 80      /\ LabelOf(c).impact = "high"
      /\ AgeOf(c).score = 30        /\ AgeOf(c).impact = "low"
      /\ PopularityOf(c).score = 85 /\ PopularityOf(c).impact = "high"
      /\ UsageOf(c).score = 70      /\ UsageOf(c).impact = "high"
      /\ 100 * WeightedSum(c) = 6875 * WeightSum(c)
      /\ c.result.totalScore = 69
      /\ c.result.riskLevel = "medium"

C6_Witness ==
  \E c \in Made : ScenarioA(c) /\ c.result.totalScore = 69

\* C7: totalScore is an integer between 0 and 100.
C7_TotalInRange ==
  \A c \in Made : c.result.totalScore \in 0..100

\* the largest total the factor tables can produce
C7_Witness ==
  \E c \in Made : c.result.totalScore = 78

\* C8: with age = year of the call - releaseYear, the age factor has weight 2
\* and is 20/low from 70, 30/low from 50, 40/medium from 30, 60/medium from
\* 10, and 75/high below 10, negative ages included.
AgeOfTrack(c) == c.year - c.args.releaseYear

AgeFactorIs(c, sc, imp) == AgeOf(c).score = sc /\ AgeOf(c).impact = imp

C8_AgeBrackets ==
  \A c \in Made :
    LET age == AgeOfTrack(c)
    IN /\ AgeOf(c).weight = 20
       /\ age >= 70              => AgeFactorIs(c, 20, "low")
       /\ (50 <= age /\ age < 70) => AgeFactorIs(c, 30, "low")
       /\ (30 <= age /\ age < 50) => AgeFactorIs(c, 40, "medium")
       /\ (10 <= age /\ age < 30) => AgeFactorIs(c, 60, "medium")
       /\ age < 10               => AgeFactorIs(c, 75, "high")
       /\ age = 70 => AgeOf(c).score = 20
       /\ age = 69 => AgeOf(c).score = 30
       /\ age = 50 => AgeOf(c).score = 30
       /\ age = 49 => AgeOf(c).score = 40
       /\ age = 30 => AgeOf(c).score = 40
       /\ age = 29 => AgeOf(c).score = 60
       /\ age = 10 => AgeOf(c).score = 60
       /\ age = 9  => AgeOf(c).score = 75

\* a release year in the future, and a track exactly on a bracket's lower bound
C8_Witness ==
  /\ \E c \in Made : AgeOfTrack(c) < 0 /\ AgeOf(c).score = 75
  /\ \E c \in Made : AgeOfTrack(c) = 70 /\ AgeOf(c).score = 20

\* two calls made in the same year whose release years fall in different brackets
Bracket(age) ==
  IF age >= 70 THEN 5 ELSE IF age >= 50 THEN 4 ELSE IF age >= 30 THEN 3
  ELSE IF age >= 10 THEN 2 ELSE 1

OlderThenNewer(c1, c2) ==
  /\ c1.year = c2.year
  /\ c1.args.releaseYear < c2.args.releaseYear
  /\ Bracket(AgeOfTrack(c1)) # Bracket(AgeOfTrack(c2))

\* C9 as claimed: the earlier release year has the greater-or-equal age score.
C9_AsClaimed ==
  \A c1, c2 \in Made : OlderThenNewer(c1, c2) => AgeOf(c1).score >= AgeOf(c2).score

\* C9: for release years y1 < y2 evaluated in the same year and falling in
\* different brackets, the age score for y1 is less than or equal to the age
\* score for y2 (the older track contributes the lower-or-equal risk).
C9_OlderScoresLower ==
  \A c1, c2 \in Made : OlderThenNewer(c1, c2) => AgeOf(c1).score <= AgeOf(c2).score

C9_Witness ==
  \E c1, c2 \in Made :
    OlderThenNewer(c1, c2) /\ AgeOf(c1).score = 20 /\ AgeOf(c2).score = 75

\* C10: potentialIssues has 3 + (number of high-impact factors) entries and
\* mitigationStrategies has 4, at every risk level.
C10_NarrativeLengths ==
  \A c \in Made :
    /\ Len(c.result.potentialIssues) = 3 + Cardinality(HighImpact(c))
    /\ Len(c.result.mitigationStrategies) = 4

\* a low result, and a medium result with a high-impact factor
C10_Witness ==
  /\ \E c \in Made : c.result.riskLevel = "low" /\ Len(c.result.potentialIssues) = 3
  /\ \E c \in Made : c.result.riskLevel = "medium" /\ Len(c.result.potentialIssues) > 3

\* the arguments of two calls agree in everything but, possibly, rightsHolder
SameButHolder(c1, c2) ==
  /\ c1.args.sourceTrack = c2.args.sourceTrack
  /\ c1.args.originalArtist = c2.args.originalArtist
  /\ c1.args.releaseYear = c2.args.releaseYear
  /\ c1.args.label = c2.args.label

\* C11: two calls with identical arguments return identical results,
\* whenever they are made.
C11_SameArgumentsSameResult ==
  \A c1, c2 \in Made : c1.args = c2.args => c1.result = c2.result

\* C12: two calls that differ in rightsHolder and in nothing else (the same
\* other arguments, the same reading of the clock) return identical results.
C12_RightsHolderIgnored ==
  \A c1, c2 \in Made :
    (SameButHolder(c1, c2) /\ c1.year = c2.year) => c1.result = c2.result

C12_Witness ==
  \E c1, c2 \in Made :
    /\ SameButHolder(c1, c2) /\ c1.year = c2.year
    /\ c1.args.rightsHolder # c2.args.rightsHolder
    /\ c1.result = c2.result

\* C13: every call returns a complete result: a risk level, four factors
\* each with a score and an impact, the potential issues and the mitigation
\* strategies; empty strings and years in the future or long past included.
Levels == { "high", "medium", "low" }

C13_ResultComplete ==
  \A c \in Made :
    /\ c.result.totalScore \in Int
    /\ c.result.riskLevel \in Levels
    /\ Len(c.result.factors) = 4
    /\ \A k \in 1..4 : /\ c.result.factors[k].score \in Int
                       /\ c.result.factors[k].impact \in Levels
                       /\ c.result.factors[k].mitigation # ""
    /\ Len(c.result.potentialIssues) >= 3
    /\ Len(c.result.mitigationStrategies) = 4

\* all strings empty, once with a release year in the future and once with
\* one long past
C13_Witness ==
  \E c1, c2 \in Made :
    /\ c1.args.sourceTrack = <<>> /\ c1.args.originalArtist = <<>> /\ c1.args.label = <<>>
    /\ c2.args.sourceTrack = <<>> /\ c2.args.originalArtist = <<>> /\ c2.args.label = <<>>
    /\ c1.args.releaseYear > c1.year /\ c1.result.riskLevel \in Levels
    /\ c2.args.releaseYear = 1900    /\ c2.result.riskLevel \in Levels

\* C14: the popularity factor has weight 2.5 and is 85/high for an artist
\* holding a very-popular name, else 65/medium for one holding a popular
\* name, else 35/low; an artist holding both is very popular.
\* Of the artists tried, "James Brown" holds a very-popular name, "Coldplay
\* Live" a popular one, "Prince & Coldplay" one of each.
WithVeryPopularName == { JamesBrown, PrinceAndColdplay }

WithPopularName == { ColdplayLive, PrinceAndColdplay }

TierIs(f, sc, wt, imp) == f.score = sc /\ f.weight = wt /\ f.impact = imp

C14_PopularityFactor ==
  \A c \in Made :
    IF c.args.originalArtist \in WithVeryPopularName
    THEN TierIs(PopularityOf(c), 85, 25, "high")
    ELSE IF c.args.originalArtist \in WithPopularName
    THEN TierIs(PopularityOf(c), 65, 25, "medium")
    ELSE TierIs(PopularityOf(c), 35, 25, "low")

C14_Witness ==
  \E c \in Made :
    c.args.originalArtist = PrinceAndColdplay /\ TierIs(PopularityOf(c), 85, 25, "high")

\* C15: the prior-usage factor has weight 2.5 and is 70/high for a track
\* holding a frequently-sampled title, else 50/medium for one holding a
\* moderately-sampled title, else 30/low; a track holding both is frequent.
\* Of the tracks tried, "Funky Drummer - James Brown" holds a frequent title,
\* "Nautilus (edit)" a moderate one, "Think (Nautilus mix)" one of each.
WithFrequentTitle == { FunkyDrummerJamesBrown, ThinkNautilusMix }

WithModerateTitle == { NautilusEdit, ThinkNautilusMix }

C15_UsageFactor ==
  \A c \in Made :
    IF c.args.sourceTrack \in WithFrequentTitle
    THEN TierIs(UsageOf(c), 70, 25, "high")
    ELSE IF c.args.sourceTrack \in WithModerateTitle
    THEN TierIs(UsageOf(c), 50, 25, "medium")
    ELSE TierIs(UsageOf(c), 30, 25, "low")

C15_Witness ==
  \E c \in Made :
    c.args.sourceTrack = ThinkNautilusMix /\ TierIs(UsageOf(c), 70, 25, "high")

\* C16: potentialIssues is the three canned strings of the result's level,
\* then one entry per high-impact factor in factor order, reading
\* "<name> presents significant challenges: <description>" at level high and
\* "<name> presents challenges: <description>" at level medium.
ExpectedCanned(level) ==
  CASE level = "high" ->
         << <<"Major label ownership may require higher licensing fees">>,
            <<"Popular track with previous clearance challenges">>,
            <<"Multiple rights holders may complicate negotiations">> >>
    [] level = "medium" ->
         << <<"Some negotiation may be required for favorable terms">>,
            <<"Rights holder may request creative control over usage">>,
            <<"Approval process may take several weeks">> >>
    [] OTHER ->
         << <<"Standard clearance process should be straightforward">>,
            <<"Reasonable licensing fees expected">>,
            <<"Quick turnaround time likely">> >>

HighInOrder(c) == SelectSeq(c.result.factors, LAMBDA f : f.impact = "high")

C16_IssuesContent ==
  \A c \in Made :
    LET issues == c.result.potentialIssues
        high   == HighInOrder(c)
    IN /\ Len(issues) = 3 + Len(high)
       /\ SubSeq(issues, 1, 3) = ExpectedCanned(c.result.riskLevel)
       /\ \A k \in 1..Len(high) :
            /\ c.result.riskLevel = "high" =>
                 issues[3 + k] = << high[k].name, " presents significant challenges: ", high[k].description >>
            /\ c.result.riskLevel = "medium" =>
                 issues[3 + k] = << high[k].name, " presents challenges: ", high[k].description >>

\* a high result and a medium result, each with several high-impact factors
C16_Witness ==
  \E c1, c2 \in Made :
    /\ c1.result.riskLevel = "high"   /\ Len(HighInOrder(c1)) >= 2
    /\ c2.result.riskLevel = "medium" /\ Len(HighInOrder(c2)) >= 2

\* C17: the factors are exactly four, in the order label, age, popularity,
\* prior usage, and mitigationStrategies is the mitigation of each, in that
\* order, whatever its impact.
C17_FactorOrderAndMitigations ==
  \A c \in Made :
    /\ Len(c.result.factors) = 4
    /\ LabelOf(c).name = "Label Ownership"
    /\ AgeOf(c).name = "Track Age"
    /\ PopularityOf(c).name = "Artist Popularity"
    /\ UsageOf(c).name = "Previous Sample Usage"
    /\ c.result.mitigationStrategies = [ k \in 1..4 |-> c.result.factors[k].mitigation ]

\* a result that carries the mitigation of a low-impact factor
C17_Witness ==
  \E c \in Made :
    /\ UsageOf(c).impact = "low"
    /\ c.result.mitigationStrategies[4] = UsageOf(c).mitigation

(***************************************************************************)
(* Properties of ApiService.request and of the service methods             *)
(***************************************************************************)
Attempts == Len(api.log)
Transient(fetched) ==
  \/ fetched.kind = "networkError"
  \/ fetched.kind = "response" /\ fetched.status >= 500 /\ fetched.status <= 599
Successful(fetched) ==
  /\ fetched.kind = "response"
  /\ fetched.status \in 200..299
  /\ fetched.status = 204 \/ fetched.body # "garbled"

\* C18: when the first response of a request has a status in 400..499, the
\* request is rejected with an ApiError carrying that status, after exactly
\* one fetch and with no backoff wait.
C18_NoRetryAfterClientError ==
  ( /\ Attempts >= 1
    /\ api.log[1].kind = "response"
    /\ api.log[1].status \in 400..499 )
  => /\ api.pc = "rejected"
     /\ api.thrown.name = "ApiError"
     /\ api.thrown.status = api.log[1].status
     /\ Attempts = 1
     /\ api.waits = <<>>

C18_Witness ==
  /\ api.pc = "rejected"
  /\ Attempts = 1
  /\ api.log[1].kind = "response"
  /\ api.log[1].status = 400
  /\ svc.pc = "threw"
  /\ svc.result.error.status = 400

\* the maxRetries a request is to use: the per-request option if given, else
\* the service configuration, else the built-in default
GivenMaxRetries ==
  IF api.options # <<>> THEN api.options[1]
  ELSE IF api.config # <<>> THEN api.config[1]
  ELSE 3

\* C19: a request whose fetches fail transiently (5xx, network error) makes
\* at most 1 + maxRetries fetches, where maxRetries is the per-request option
\* if given and the service configuration otherwise; it waits 100 * 2^k ms
\* before retry k+1; it resolves with the first successful response; and once
\* the cap is reached it is rejected with the last error.
C19_BoundedBackoff ==
  ( /\ api.pc # "idle"
    /\ \A i \in 1..Attempts : Transient(api.log[i]) \/ Successful(api.log[i]) )
  => /\ Attempts <= 1 + GivenMaxRetries
     /\ Len(api.waits) <= GivenMaxRetries
     /\ \A k \in 1..Len(api.waits) : api.waits[k] = 100 * (2 ^ (k - 1))
     /\ \A i \in 1..Attempts :
          Successful(api.log[i]) => i = Attempts /\ api.pc = "resolved"
     /\ ( Attempts = 1 + GivenMaxRetries /\ Transient(api.log[Attempts]) )
          => /\ api.pc = "rejected"
             /\ api.thrown.name = IF api.log[Attempts].kind = "networkError"
                                    THEN "TypeError" ELSE "ApiError"
             /\ api.thrown.status = api.log[Attempts].status

FailedFetch(fetched) ==
  \/ fetched.kind = "networkError"
  \/ fetched.kind = "response" /\ fetched.status \notin 200..299

\* C20: when the external call of an OpenAI, ElevenLabs or Stripe service
\* method fails, the method returns its default or mock result and does not
\* pass the failure on to its caller.
C20_FailuresYieldDefaults ==
  ( /\ svc.method \in ServiceMethods
    /\ svc.pc \in { "returned", "threw" }
    /\ FailedFetch(svc.fetched) \/ api.pc = "rejected" )
  => /\ svc.pc = "returned"
     /\ svc.result.kind \in { "mock", "null" }

\* C21: while the flag useRealAudioAnalysis is off, analyzeSample and
\* analyzeNegotiationResponse return hard-coded mock data and issue no request
\* to the external API.
C21_FlagOffNoRequest ==
  ( /\ ~ flags.useRealAudioAnalysis
    /\ svc.method \in { "analyzeSample", "analyzeNegotiationResponse" } )
  => /\ svc.pc = "returned"
     /\ svc.result.kind = "mock"
     /\ svc.fetched = NoFetch
     /\ api.pc = "idle"

\* the timeout a request is to use: its own option if given, else the
\* service configuration, else the built-in default
GivenTimeout ==
  IF api.timeoutOption # <<>> THEN api.timeoutOption[1]
  ELSE IF api.timeoutConfig # <<>> THEN api.timeoutConfig[1]
  ELSE 30000

\* C23: an attempt of ApiService.request that is aborted by the timeout is the
\* last one: the request is rejected at once with "Request timed out after
\* <timeout>ms", whatever is left of the retry budget.
C23_TimeoutNotRetried ==
  \A i \in 1..Attempts :
    api.log[i].kind = "abort"
    => /\ i = Attempts
       /\ api.pc = "rejected"
       /\ api.thrown.name = "Error"
       /\ api.thrown.message = "Request timed out after ms"
       /\ api.thrown.ms = GivenTimeout

C23_Witness ==
  /\ Attempts = 2
  /\ api.log[1].kind = "response" /\ api.log[1].status = 503
  /\ api.log[2].kind = "abort"
  /\ api.retries = 1 /\ api.maxRetries = 3
  /\ api.pc = "rejected"
  /\ api.thrown.ms = 5000

(***************************************************************************)
(* Properties of useSubscription                                           *)
(***************************************************************************)
NumericFeatures == { "searches", "projects", "negotiationTemplates" }

\* C22: with a count n given, isFeatureAvailable('searches', n) is true on the
\* free tier exactly when n <= 3 and true on pro and premium; and for every
\* numeric feature, an answer of true on free is never followed by false on
\* pro, nor true on pro by false on premium, for the same count.
C22_AccessMonotoneInTier ==
  subscription.count # <<>>
  => /\ subscription.feature = "searches"
        => /\ subscription.answers.free # ""
              => ( subscription.answers.free = "true"
                     <=> subscription.count[1] <= 3 )
           /\ subscription.answers.pro # "false"
           /\ subscription.answers.premium # "false"
     /\ subscription.feature \in NumericFeatures
        => /\ subscription.answers.free = "true"
              => subscription.answers.pro # "false"
           /\ subscription.answers.pro = "true"
              => subscription.answers.premium # "false"

C22_Witness ==
  /\ subscription.feature = "searches"
  /\ subscription.count = << 3 >>
  /\ subscription.answers = [ free |-> "true", pro |-> "true", premium |-> "true" ]

(***************************************************************************)
(* Properties of useRiskAssessment                                         *)
(***************************************************************************)
\* C24: in every state of the mounted hook whose effect has run, riskLevel is
\* high exactly when riskScore >= 70, medium exactly when 40 <= riskScore < 70, and low exactly
\* when riskScore < 40.
C24_LevelFollowsScore ==
  ~ hook.effect
  => /\ hook.riskLevel = "high"
          <=> ( ~ hook.riskScore.isNaN /\ hook.riskScore.n >= 70 )
     /\ hook.riskLevel = "medium"
          <=> ( ~ hook.riskScore.isNaN /\ hook.riskScore.n >= 40
                /\ hook.riskScore.n < 70 )
     /\ hook.riskLevel = "low"
          <=> ( ~ hook.riskScore.isNaN /\ hook.riskScore.n < 40 )

FactorWeightedSum ==
  LET f == hook.riskFactors
  IN IF f = <<>> THEN 0
     ELSE f[1].score * f[1].weight + f[2].score * f[2].weight
          + f[3].score * f[3].weight + f[4].score * f[4].weight
FactorWeightSum ==
  LET f == hook.riskFactors
  IN IF f = <<>> THEN 0 ELSE f[1].weight + f[2].weight + f[3].weight + f[4].weight

\* C25: right after a call of updateRiskFactor, riskScore is an integer in
\* 0..100, and it is the weighted mean of the factor scores rounded to the
\* nearest integer; the first part also when the factor list is still empty.
C25_ScoreAfterFactorUpdate ==
  hook.last = "updateRiskFactor"
  => /\ ~ hook.riskScore.isNaN
     /\ hook.riskScore.n \in 0..100
     /\ hook.riskFactors # <<>>
        => /\ 2 * FactorWeightSum * hook.riskScore.n
                <= 2 * FactorWeightedSum + FactorWeightSum
           /\ 2 * FactorWeightedSum + FactorWeightSum
                < 2 * FactorWeightSum * (hook.riskScore.n + 1)

(***************************************************************************)
(* Properties of ProjectDetail                                             *)
(***************************************************************************)
EntriesOf(id) ==
  { k \in 1..Len(project.currentProject.negotiationLog) :
      project.currentProject.negotiationLog[k].attemptId = id }

\* C26: every attempt sent is in the current project's negotiationLog exactly
\* once, and every attempt whose 2-second timer has fired has status
\* 'responded' and a response there.
C26_AttemptsKept ==
  /\ \A i \in 1..Len(project.sent) : Cardinality(EntriesOf(project.sent[i])) = 1
  /\ \A id \in project.fired :
       \A k \in EntriesOf(id) :
         /\ project.currentProject.negotiationLog[k].status = "responded"
         /\ project.currentProject.negotiationLog[k].response # ""

(***************************************************************************)
(* Properties of useSampleSegments                                         *)
(***************************************************************************)
Held == { segments.state.items[k] : k \in 1..Len(segments.state.items) }

\* C27: when the caller passes no initialSegments, every render shows in
\* segments each segment that addSegment or importFromAnalysis added and that
\* neither deleteSegment nor clearSegments has removed since.
C27_AddedSegmentsStay ==
  ( segments.caller = "default" /\ ~ segments.dirty )
  => segments.added \subseteq Held

(***************************************************************************)
(* Properties of useAudioAnalysis                                          *)
(***************************************************************************)
InFlight == { i \in 1..Len(analysis.calls) : analysis.calls[i].awaiting # "" }
Settled  == { i \in 1..Len(analysis.calls) : analysis.calls[i].awaiting = "" }

\* C28: the progress timer of a settled analyzeSample call is stopped, and
\* from the settling of a call until the next call is made progress keeps the
\* value it had; progress is at most 90 while an analysis is in flight, and
\* it is 100 only after a success.
C28_ProgressStopsOnSettle ==
  /\ \A i \in Settled : ~ analysis.calls[i].interval
  /\ analysis.frozen # <<>> => analysis.progress = analysis.frozen[1]
  /\ InFlight # {} => analysis.progress <= 90
  /\ analysis.progress = 100 => analysis.hasResult

(***************************************************************************)
(* Properties of ChatThread                                                *)
(***************************************************************************)
\* C29: the message that a send appended has status 'sent' while its own
\* onSendMessage call is pending, 'delivered' once that call has resolved and
\* 'failed' once it has rejected, whatever happens to the other sends.
C29_StatusFollowsOwnSend ==
  \A i \in 1..Len(chat.sends) :
    chat.messages[chat.sends[i].at].status =
      ( IF chat.sends[i].outcome = "pending" THEN "sent"
        ELSE IF chat.sends[i].outcome = "resolved" THEN "delivered"
        ELSE "failed" )

(***************************************************************************)
(* Properties of OfferTracker                                              *)
(***************************************************************************)
\* the amounts an offer's type requires are numbers other than zero
HasItsAmounts(offer) ==
  /\ offer.type \in { "flat", "hybrid" } => truthy(offer.flatFee)
  /\ offer.type \in { "royalty", "hybrid" } => truthy(offer.royaltyPercentage)

\* C30: every offer of the list has the amounts its type requires; the latest
\* call of handleAddOffer left the list as it was when a required amount was
\* missing, and otherwise appended one offer, of status 'pending'.
C30_OffersHaveTheirAmounts ==
  /\ \A k \in 1..Len(offers.list) : HasItsAmounts(offers.list[k])
  /\ offers.last.called =>
       IF offers.last.complete
       THEN offers.last.grown = 1 /\ offers.last.status = "pending"
       ELSE offers.last.grown = 0

====
